---- MODULE Spec2Model ----
(***************************************************************************)
(* Model of the Airbnb price prediction service:                           *)
(*   airbnb_price_predictor.py  AirbnbPricePredictor (load, validate,      *)
(*                              engineer, preprocess, predict, batch)      *)
(*   deploy.py                  the Flask handlers around the predictor    *)
(*                                                                         *)
(* Numbers are fixed point.  Latitude and longitude are integers in units  *)
(* of 1/GeoDen degree, the other numeric inputs in units of 1/HalfDen, so  *)
(* that a fractional input such as -0.5 is a value of the model.  Prices   *)
(* and per-model estimates are integers in units of 1/PriceDen currency    *)
(* unit; the blend weights are numerators over WDen.  The arithmetic of     *)
(* the model is exact where the program's is binary floating point.        *)
(***************************************************************************)
EXTENDS Integers, Sequences, FiniteSets, TLC

(***************************************************************************)
(* Bounds of the model                                                     *)
(***************************************************************************)
MaxBatch == 2

(***************************************************************************)
(* Units                                                                   *)
(***************************************************************************)
GeoDen == 10000
HalfDen == 2
PriceDen == 1000
WDen == 4

(***************************************************************************)
(* Python values.  None is the empty sequence and an object x is <<x>>, so *)
(* that "x is None" and the truth value of a loaded object can be told.    *)
(***************************************************************************)
None == <<>>
Some(x) == <<x>>
IsNone(o) == o = <<>>
Truthy(o) == o # <<>>
Get(o) == o[1]

(* A JSON value of an input record: a number (scaled integer v), a string  *)
(* spelling a number (v), any other string (s), or null.  A key that is     *)
(* absent is not in the DOMAIN of the record.                              *)
Num(n) == [t |-> "num", v |-> n, s |-> ""]
NumStr(n) == [t |-> "numstr", v |-> n, s |-> ""]
Txt(str) == [t |-> "text", v |-> 0, s |-> str]
Null == [t |-> "null", v |-> 0, s |-> ""]

(***************************************************************************)
(* Feature schema of the fallback configuration                            *)
(***************************************************************************)
fallback_categorical_features ==
    << "neighbourhood_group", "neighbourhood", "room_type",
       "price_category", "host_activity_level", "season",
       "availability_category", "min_nights_category", "booking_intensity" >>

fallback_numerical_features ==
    << "latitude", "longitude", "minimum_nights", "availability_365",
       "number_of_reviews", "reviews_per_month_filled", "calculated_host_listings_count",
       "day", "month", "year", "review_density", "host_experience",
       "distance_to_manhattan", "neighbourhood_avg_price", "neighbourhood_density",
       "price_ratio_to_neighbourhood", "quarter", "availability_ratio",
       "reviews_x_availability", "host_listings_x_reviews", "location_premium",
       "price_per_review", "availability_efficiency", "review_frequency" >>

fallback_binary_features ==
    << "is_weekend", "has_reviews", "is_super_host", "is_peak_season",
       "is_highly_available", "is_short_stay" >>

Range(seq) == { seq[i] : i \in 1..Len(seq) }

(***************************************************************************)
(* The artifact directory: what the files hold.  A regressor file is       *)
(* absent, loadable ("ok") or unreadable ("corrupt"); a loaded regressor   *)
(* is the pair of its input width and of the intercept of its response     *)
(* (1/PriceDen currency units).  The blend weights of a preprocessing      *)
(* package are numerators over WDen.                                        *)
(***************************************************************************)
(* Label encoders as fitted at training time: classes_ in sorted order.    *)
trained_label_encoders(sch) ==
    [f \in Range(sch.categorical_features) |->
        CASE f = "neighbourhood_group" ->
                << "Bronx", "Brooklyn", "Manhattan", "Queens", "Staten Island" >>
          [] f = "neighbourhood" -> << "Upper East Side", "Williamsburg" >>
          [] f = "room_type" -> << "Entire home/apt", "Private room", "Shared room" >>
          [] f = "price_category" -> << "Budget", "Luxury", "Mid-range", "Premium" >>
          [] f = "host_activity_level" -> << "Active", "Casual", "New", "Professional" >>
          [] f = "season" -> << "Fall", "Spring", "Summer", "Winter" >>
          [] f = "availability_category" -> << "Always", "Limited", "Regular", "Seasonal" >>
          [] f = "min_nights_category" -> << "Flexible", "Long-term", "Month", "Short", "Week" >>
          [] f = "booking_intensity" -> << "High", "Low", "Medium", "Very High" >>
          [] OTHER -> << "Downtown", "Uptown" >> ]

no_label_encoders == [f \in {} |-> <<>>]

(* A schema with two features the feature engineering does not produce.    *)
extended_categorical_features == Append(fallback_categorical_features, "neighbourhood_cluster")
extended_numerical_features == Append(fallback_numerical_features, "host_tenure")

(* The scaler object: its fitted flag and the center it subtracts.         *)
SchemaWidth(sch) == Len(sch.categorical_features) + Len(sch.numerical_features)
                       + Len(sch.binary_features)
trained_scaler(sch) == [fitted |-> TRUE, center |-> 1, n_features |-> SchemaWidth(sch)]
unfitted_scaler == [fitted |-> FALSE, center |-> 0, n_features |-> 0]

VARIABLES
    artifacts,      \* the model directory (read at start-up, constant afterwards)
    phase,          \* "start", "idle" (serving, no call in progress), "responded"
    predictor_set,  \* deploy.py: the global predictor is not None
    predictor,      \* the fields of the AirbnbPricePredictor object
    call,           \* the last call: operation, argument, what it returned
    threads,        \* the request threads of app.run(threaded=True), each in a call
    etl             \* app.py: the run of the ETL script (main)

vars == << artifacts, phase, predictor_set, predictor, call, threads, etl >>

(* app.py before main is called: nothing read, nothing written.            *)
NoEtl ==
    [ pc |-> "idle", files |-> <<>>, dataframes |-> <<>>, engine |-> <<>>,
      created |-> FALSE, written |-> <<>>, constraints |-> {},
      steps |-> <<>>, output |-> <<>> ]

(***************************************************************************)
(* AirbnbPricePredictor.__init__: the fields before _load_models           *)
(***************************************************************************)
NewPredictor ==
    [ neural_network |-> None, rf_model |-> None, gb_model |-> None,
      ridge_model |-> None, scaler |-> None,
      label_encoders |-> no_label_encoders,
      all_features |-> <<>>, categorical_features |-> <<>>,
      numerical_features |-> <<>>, binary_features |-> <<>>,
      ensemble_weights |-> None, is_ensemble |-> FALSE,
      model_version |-> "unknown" ]

(* _setup_fallback_preprocessing *)
_setup_fallback_preprocessing(self) ==
    [ self EXCEPT
        !.categorical_features = fallback_categorical_features,
        !.numerical_features = fallback_numerical_features,
        !.binary_features = fallback_binary_features,
        !.scaler = Some(unfitted_scaler),
        !.label_encoders = no_label_encoders,
        !.all_features = fallback_categorical_features \o fallback_numerical_features
                             \o fallback_binary_features ]

(* The assignments of _load_models from the unpickled package.             *)
LoadPackage(self, pkg) ==
    [ self EXCEPT
        !.scaler = pkg.scaler,
        !.label_encoders = IF IsNone(pkg.label_encoders) THEN no_label_encoders
                           ELSE Get(pkg.label_encoders),
        !.all_features = pkg.schema.categorical_features \o pkg.schema.numerical_features
                             \o pkg.schema.binary_features,
        !.categorical_features = pkg.schema.categorical_features,
        !.numerical_features = pkg.schema.numerical_features,
        !.binary_features = pkg.schema.binary_features,
        !.ensemble_weights = pkg.ensemble_weights,
        !.model_version = "enhanced_v2" ]

(* joblib.load of one optional regressor file *)
LoadRegressor(file) == Some([base |-> file.base, n_inputs |-> artifacts.width])

(* _load_ensemble_models: the three loads in order; an exception of a load *)
(* is caught at the end, so the later files are not read and is_ensemble   *)
(* keeps its value.                                                        *)
(* any([...]) in the place of all([...]) *)
EnsembleCompleteAny(self) ==
    \/ Truthy(self.rf_model) \/ Truthy(self.gb_model) \/ Truthy(self.ridge_model)
    \/ ~IsNone(self.ensemble_weights)

(* The three regressors without regard to the weights *)
EnsembleCompleteWithoutWeights(self) ==
    Truthy(self.rf_model) /\ Truthy(self.gb_model) /\ Truthy(self.ridge_model)

EnsembleComplete(self) ==
    /\ Truthy(self.rf_model) /\ Truthy(self.gb_model) /\ Truthy(self.ridge_model)
    /\ ~IsNone(self.ensemble_weights)

_load_ensemble_models(self) ==
    LET rf == artifacts.rf
        gb == artifacts.gb
        ridge == artifacts.ridge
        s1 == IF rf.state = "ok" THEN [self EXCEPT !.rf_model = LoadRegressor(rf)] ELSE self
        s2 == IF gb.state = "ok" THEN [s1 EXCEPT !.gb_model = LoadRegressor(gb)] ELSE s1
        s3 == IF ridge.state = "ok" THEN [s2 EXCEPT !.ridge_model = LoadRegressor(ridge)] ELSE s2
    IN  IF rf.state = "corrupt" THEN self
        ELSE IF gb.state = "corrupt" THEN s1
        ELSE IF ridge.state = "corrupt" THEN s2
        ELSE [s3 EXCEPT !.is_ensemble = EnsembleComplete(s3)]

(* _load_models: raised is TRUE when the constructor raises.               *)
_load_models(self) ==
    IF artifacts.nn.state # "ok"
    THEN [raised |-> TRUE, self |-> self]
    ELSE LET s1 == [self EXCEPT !.neural_network = LoadRegressor(artifacts.nn)]
         IN  IF artifacts.package_state = "corrupt"
             THEN [raised |-> TRUE, self |-> s1]
             ELSE LET s2 == IF artifacts.package_state = "ok"
                            THEN LoadPackage(s1, artifacts.package)
                            ELSE _setup_fallback_preprocessing(s1)
                  IN  [raised |-> FALSE, self |-> _load_ensemble_models(s2)]

(***************************************************************************)
(* Input records                                                           *)
(***************************************************************************)
required_fields ==
    << "neighbourhood_group", "neighbourhood", "room_type",
       "latitude", "longitude", "minimum_nights", "availability_365",
       "number_of_reviews", "calculated_host_listings_count" >>

(* The listing of the documentation: Manhattan, Upper East Side, latitude  *)
(* 40.7736, longitude -73.9566, 2 nights, 180 days available, 50 reviews,  *)
(* 2.5 reviews per month, 3 host listings, 15 July 2024, weekend.          *)
example_data ==
    [ neighbourhood_group |-> Txt("Manhattan"),
      neighbourhood |-> Txt("Upper East Side"),
      room_type |-> Txt("Entire home/apt"),
      latitude |-> Num(407736),
      longitude |-> Num(-739566),
      minimum_nights |-> Num(2 * HalfDen),
      availability_365 |-> Num(180 * HalfDen),
      number_of_reviews |-> Num(50 * HalfDen),
      reviews_per_month |-> Num(5),
      calculated_host_listings_count |-> Num(3 * HalfDen),
      day |-> Num(15), month |-> Num(7), year |-> Num(2024),
      is_weekend |-> Num(1) ]

Without(data, field) == [g \in (DOMAIN data) \ {field} |-> data[g]]
With(data, field, val) ==
    [g \in (DOMAIN data) \cup {field} |-> IF g = field THEN val ELSE data[g]]

(* Values tried for each field, one field at a time, on the example.       *)
FieldValues(field) ==
    CASE field = "latitude" ->
            { Num(90 * GeoDen), Num(90 * GeoDen + 1), Num(-90 * GeoDen - 1),
              NumStr(95 * GeoDen), Null }
      [] field = "longitude" ->
            { Num(-180 * GeoDen), Num(180 * GeoDen + 1), Num(-180 * GeoDen - 1) }
      [] field = "minimum_nights" ->
            { Num(-1 * HalfDen), Num(-1), Num(0), Num(3 * HalfDen), Num(3 * HalfDen + 1),
              Num(31 * HalfDen), NumStr(2 * HalfDen) }
      [] field = "availability_365" ->
            { Num(-1 * HalfDen), Num(0), Num(300 * HalfDen), Num(300 * HalfDen + 1),
              Num(315 * HalfDen - 1), Num(315 * HalfDen), Num(365 * HalfDen),
              Num(365 * HalfDen + 1), Num(366 * HalfDen) }
      [] field = "number_of_reviews" -> { Num(-1 * HalfDen), Num(0) }
      [] field = "calculated_host_listings_count" ->
            { Num(-1 * HalfDen), Num(0), Num(5), Num(7), Num(4 * HalfDen),
              Num(5 * HalfDen + 1), Num(6 * HalfDen), Num(11 * HalfDen) }
      [] field = "neighbourhood_group" -> { Txt("Brooklyn"), Txt("Atlantis"), Null }
      [] field = "neighbourhood" -> { Txt("Williamsburg"), Txt("Nowhere") }
      [] field = "room_type" -> { Txt("Private room"), Txt("Castle") }
      [] field = "reviews_per_month" -> { Num(0), Null, Txt("many") }
      [] field = "month" -> { Num(12), Num(13), Txt("July") }
      [] field = "is_weekend" -> { Num(0), Txt("yes") }
      [] OTHER -> {}

VariedFields ==
    { "latitude", "longitude", "minimum_nights", "availability_365",
      "number_of_reviews", "calculated_host_listings_count", "neighbourhood_group",
      "neighbourhood", "room_type", "reviews_per_month", "month", "is_weekend" }

OptionalFields == { "reviews_per_month", "day", "month", "year", "is_weekend" }

(* The requests of the model: the example, the example with one field      *)
(* changed or removed, and a record that is wrong in two fields.           *)
Inputs ==
    {example_data}
      \cup { With(example_data, f, val) : <<f, val>> \in
               UNION { {f} \X FieldValues(f) : f \in VariedFields } }
      \cup { Without(example_data, f) :
               f \in {"latitude", "room_type", "calculated_host_listings_count"}
                       \cup OptionalFields }
      \cup { With(With(example_data, "latitude", Num(91 * GeoDen)),
                  "minimum_nights", Num(-1 * HalfDen)) }

(* The items of batch requests.                                            *)
BatchInputs ==
    { example_data,
      With(example_data, "minimum_nights", Num(-1 * HalfDen)),
      With(example_data, "minimum_nights", Num(-1)) }

(***************************************************************************)
(* Python comparisons and conversions on JSON values                       *)
(***************************************************************************)
IsNum(val) == val.t = "num"

(* int(x): truncation toward zero of a number, the parse of a string that  *)
(* spells an integer; ok is FALSE where Python raises ValueError or        *)
(* TypeError.                                                              *)
IntTrunc(n, den) == IF n >= 0 THEN n \div den ELSE -((-n) \div den)

PyInt(val, den) ==
    CASE val.t = "num" -> [ok |-> TRUE, v |-> IntTrunc(val.v, den)]
      [] val.t = "numstr" /\ val.v % den = 0 -> [ok |-> TRUE, v |-> val.v \div den]
      [] OTHER -> [ok |-> FALSE, v |-> 0]

(* float(x), in units of 1/den *)
PyFloat(val, den) ==
    CASE val.t \in {"num", "numstr"} -> [ok |-> TRUE, v |-> val.v]
      [] OTHER -> [ok |-> FALSE, v |-> 0]

(***************************************************************************)
(* AirbnbPricePredictor._validate_input                                    *)
(***************************************************************************)
Absent(data, field) == field \notin DOMAIN data
MissingOrNone(data, field) == Absent(data, field) \/ data[field].t = "null"

(* The comparison with the upper limit left out *)
InClosedRangeNoUpper(lo, x, hi) == lo <= x

(* lo <= x <= hi, a chained comparison of the code *)
InClosedRange(lo, x, hi) == lo <= x /\ x <= hi

(* The range tests in the order of the code.  A comparison of a string     *)
(* with an int raises TypeError.                                            *)
RangeError(data) ==
    LET lat == data["latitude"]
        lon == data["longitude"]
        mn == data["minimum_nights"]
        av == data["availability_365"]
        nr == data["number_of_reviews"]
        hc == data["calculated_host_listings_count"]
    IN  CASE ~IsNum(lat) -> "TypeError"
          [] ~InClosedRange(-90 * GeoDen, lat.v, 90 * GeoDen) -> "Invalid latitude"
          [] ~IsNum(lon) -> "TypeError"
          [] ~InClosedRange(-180 * GeoDen, lon.v, 180 * GeoDen) -> "Invalid longitude"
          [] ~IsNum(mn) -> "TypeError"
          [] mn.v < 0 -> "Invalid minimum_nights"
          [] ~IsNum(av) -> "TypeError"
          [] ~InClosedRange(0, av.v, 365 * HalfDen) -> "Invalid availability_365"
          [] ~IsNum(nr) -> "TypeError"
          [] nr.v < 0 -> "Invalid number_of_reviews"
          [] ~IsNum(hc) -> "TypeError"
          [] hc.v < 0 -> "Invalid calculated_host_listings_count"
          [] OTHER -> ""

(* validated_data.setdefault(...) for the optional fields *)
OptionalDefaults ==
    [ reviews_per_month |-> Num(0), day |-> Num(15), month |-> Num(6),
      year |-> Num(2024), is_weekend |-> Num(0) ]

FillDefaults(data) ==
    [f \in (DOMAIN data) \cup (DOMAIN OptionalDefaults) |->
        IF f \in DOMAIN data THEN data[f] ELSE OptionalDefaults[f]]

RangeChecked(data, error) ==
    IF error # "" THEN [ok |-> FALSE, error |-> error, data |-> data]
    ELSE [ok |-> TRUE, error |-> "", data |-> FillDefaults(data)]

(* The validation with the range tests left out *)
ValidateRequiredOnly(data) ==
    IF \E i \in 1..Len(required_fields) : MissingOrNone(data, required_fields[i])
    THEN [ok |-> FALSE, error |-> "Missing required fields", data |-> data]
    ELSE [ok |-> TRUE, error |-> "", data |-> FillDefaults(data)]

_validate_input(data) ==
    IF \E i \in 1..Len(required_fields) : MissingOrNone(data, required_fields[i])
    THEN [ok |-> FALSE, error |-> "Missing required fields", data |-> data]
    ELSE RangeChecked(data, RangeError(data))

(***************************************************************************)
(* deploy.py validate_prediction_input: the list of error messages; the    *)
(* record is valid when the list is empty.                                 *)
(***************************************************************************)
valid_borough == {"Manhattan", "Brooklyn", "Queens", "Bronx", "Staten Island"}
valid_room_types == {"Entire home/apt", "Private room", "Shared room"}

RECURSIVE RequiredErrors(_, _)
RequiredErrors(data, i) ==
    IF i > Len(required_fields) THEN <<>>
    ELSE LET field == required_fields[i]
             here == IF Absent(data, field) THEN << "Missing required field" >>
                     ELSE IF data[field].t = "null" THEN << "Field cannot be null" >>
                     ELSE <<>>
         IN  here \o RequiredErrors(data, i + 1)

(* The body of the try block: each conversion may raise, which ends the    *)
(* checks with "Invalid data type" after the errors found so far.          *)
TypeAndRangeErrors(data) ==
    LET lat == PyFloat(data["latitude"], GeoDen)
        lon == PyFloat(data["longitude"], GeoDen)
        min_nights == PyInt(data["minimum_nights"], HalfDen)
        availability == PyInt(data["availability_365"], HalfDen)
        reviews == PyInt(data["number_of_reviews"], HalfDen)
        host_listings == PyInt(data["calculated_host_listings_count"], HalfDen)
        e1 == IF lat.ok /\ lon.ok /\ ~(-90 * GeoDen <= lat.v /\ lat.v <= 90 * GeoDen)
              THEN << "Latitude must be between -90 and 90" >> ELSE <<>>
        e2 == IF lat.ok /\ lon.ok /\ ~(-180 * GeoDen <= lon.v /\ lon.v <= 180 * GeoDen)
              THEN << "Longitude must be between -180 and 180" >> ELSE <<>>
        e3 == IF min_nights.v < 0 THEN << "minimum_nights must be non-negative" >> ELSE <<>>
        e4 == IF ~(0 <= availability.v /\ availability.v <= 365)
              THEN << "availability_365 must be between 0 and 365" >> ELSE <<>>
        e5 == IF reviews.v < 0 THEN << "number_of_reviews must be non-negative" >> ELSE <<>>
        e6 == IF host_listings.v < 0
              THEN << "calculated_host_listings_count must be non-negative" >> ELSE <<>>
        e7 == IF data["neighbourhood_group"].t # "text"
                   \/ data["neighbourhood_group"].s \notin valid_borough
              THEN << "neighbourhood_group must be one of" >> ELSE <<>>
        e8 == IF data["room_type"].t # "text" \/ data["room_type"].s \notin valid_room_types
              THEN << "room_type must be one of" >> ELSE <<>>
        raised == << "Invalid data type" >>
    IN  IF ~(lat.ok /\ lon.ok) THEN raised
        ELSE IF ~min_nights.ok THEN e1 \o e2 \o raised
        ELSE IF ~availability.ok THEN e1 \o e2 \o e3 \o raised
        ELSE IF ~reviews.ok THEN e1 \o e2 \o e3 \o e4 \o raised
        ELSE IF ~host_listings.ok THEN e1 \o e2 \o e3 \o e4 \o e5 \o raised
        ELSE e1 \o e2 \o e3 \o e4 \o e5 \o e6 \o e7 \o e8

RequiredChecked(data, errors) ==
    IF errors # <<>> THEN errors ELSE TypeAndRangeErrors(data)

validate_prediction_input(data) == RequiredChecked(data, RequiredErrors(data, 1))

(***************************************************************************)
(* AirbnbPricePredictor._engineer_features.  The data frame has one row:   *)
(* it is the function from column names to cells.  A cell is a number, a   *)
(* string, None or NaN.  Quotients are kept to three decimals.              *)
(***************************************************************************)
NaN == [t |-> "nan", v |-> 0, s |-> ""]

MilliDiv(a, b) == (a * 1000) \div b

(* np.log1p of a count given in halves, to three decimals *)
Log1pTable ==
    << 0, 405, 693, 916, 1099, 1253, 1386, 1504, 1609, 1705, 1792, 1872, 1946,
       2015, 2079, 2140, 2197, 2251, 2303, 2351, 2398, 2442, 2485, 2526, 2565 >>
Log1pMilli(h) == IF h + 1 <= Len(Log1pTable) THEN Log1pTable[h + 1]
                 ELSE Log1pTable[Len(Log1pTable)]

(* floor of the square root *)
RECURSIVE SqrtBetween(_, _, _)
SqrtBetween(n, lo, hi) ==
    IF lo >= hi THEN lo
    ELSE LET mid == (lo + hi + 1) \div 2
         IN  IF mid * mid <= n THEN SqrtBetween(n, mid, hi) ELSE SqrtBetween(n, lo, mid - 1)
Isqrt(n) == SqrtBetween(n, 0, 46340)

Abs(n) == IF n < 0 THEN -n ELSE n

manhattan_center_lat == 407589
manhattan_center_lon == -739851

(* The sum of the two differences instead of the root of their squares *)
HypotTaxicab(dlat, dlon, unit) == dlat + dlon

(* np.sqrt((lat - c_lat)**2 + (lon - c_lon)**2) in units of 1/GeoDen       *)
(* degree; beyond 3 degrees the squares are taken on hundredths of a       *)
(* degree to stay within 32-bit integers.                                  *)
Hypot(dlat, dlon, unit) ==
    unit * Isqrt((dlat \div unit) * (dlat \div unit) + (dlon \div unit) * (dlon \div unit))

distance_to_manhattan(lat, lon) ==
    Hypot(Abs(lat - manhattan_center_lat), Abs(lon - manhattan_center_lon),
          IF Abs(lat - manhattan_center_lat) <= 3 * GeoDen
               /\ Abs(lon - manhattan_center_lon) <= 3 * GeoDen
          THEN 1 ELSE GeoDen \div 100)

host_activity_mapping(count) ==
    CASE count \in {0, 1} -> "New"
      [] count \in {2, 3} -> "Casual"
      [] OTHER -> "Active"

(* lambda x: 'Professional' if x > 10 else host_activity_mapping.get(x,    *)
(* 'Active'): a count that is not a whole number is no key of the mapping. *)
host_activity_level(h) ==
    IF h > 10 * HalfDen THEN "Professional"
    ELSE IF h % HalfDen = 0 /\ h \div HalfDen \in 0..10
         THEN host_activity_mapping(h \div HalfDen)
         ELSE "Active"

nyc_avg_prices(group) ==
    CASE group = "Manhattan" -> 150 [] group = "Brooklyn" -> 100
      [] group = "Queens" -> 80 [] group = "Bronx" -> 70
      [] group = "Staten Island" -> 75 [] OTHER -> 100

nyc_densities(group) ==
    CASE group = "Manhattan" -> 5000 [] group = "Brooklyn" -> 3000
      [] group = "Queens" -> 2000 [] group = "Bronx" -> 1500
      [] group = "Staten Island" -> 800 [] OTHER -> 2000

(* df['month'].map(season_mapping): NaN for a month that is no key *)
season_mapping(month) ==
    CASE month.t # "num" -> NaN
      [] month.v \in {12, 1, 2} -> Txt("Winter")
      [] month.v \in {3, 4, 5} -> Txt("Spring")
      [] month.v \in {6, 7, 8} -> Txt("Summer")
      [] month.v \in {9, 10, 11} -> Txt("Fall")
      [] OTHER -> NaN

(* The categories with the upper limits excluded *)
CategorizeAvailabilityExclusive(days) ==
    IF days < 60 * HalfDen THEN "Limited"
    ELSE IF days < 180 * HalfDen THEN "Seasonal"
    ELSE IF days < 300 * HalfDen THEN "Regular"
    ELSE "Always"

categorize_availability(days) ==
    IF days <= 60 * HalfDen THEN "Limited"
    ELSE IF days <= 180 * HalfDen THEN "Seasonal"
    ELSE IF days <= 300 * HalfDen THEN "Regular"
    ELSE "Always"

(* The categories of the stay with the upper limits excluded *)
CategorizeMinNightsExclusive(nights) ==
    IF nights < 1 * HalfDen THEN "Flexible"
    ELSE IF nights < 3 * HalfDen THEN "Short"
    ELSE IF nights < 7 * HalfDen THEN "Week"
    ELSE IF nights < 30 * HalfDen THEN "Month"
    ELSE "Long-term"

categorize_min_nights(nights) ==
    IF nights <= 1 * HalfDen THEN "Flexible"
    ELSE IF nights <= 3 * HalfDen THEN "Short"
    ELSE IF nights <= 7 * HalfDen THEN "Week"
    ELSE IF nights <= 30 * HalfDen THEN "Month"
    ELSE "Long-term"

categorize_booking_intensity(days) ==
    IF days <= 50 * HalfDen THEN "Low"
    ELSE IF days <= 150 * HalfDen THEN "Medium"
    ELSE IF days <= 300 * HalfDen THEN "High"
    ELSE "Very High"

Bool(b) == IF b THEN Num(1) ELSE Num(0)

(* The columns added to the row, given the validated record.  The required *)
(* numeric fields are numbers here (validation compared them).             *)
EngineeredColumns(data) ==
    LET lat == data["latitude"].v
        lon == data["longitude"].v
        mn == data["minimum_nights"].v
        av == data["availability_365"].v
        nr == data["number_of_reviews"].v
        hc == data["calculated_host_listings_count"].v
        group == data["neighbourhood_group"].s
        rpm == IF data["reviews_per_month"].t = "null" THEN 0
               ELSE data["reviews_per_month"].v
    IN  [ reviews_per_month_filled |-> Num(rpm),
          price_category |-> Txt("Mid-range"),
          review_density |-> Num(MilliDiv(nr, av + HalfDen)),
          has_reviews |-> Bool(nr > 0),
          review_frequency |-> Num(IF rpm > 0 THEN MilliDiv(nr, rpm) ELSE 0),
          host_experience |-> Num(Log1pMilli(hc)),
          is_super_host |-> Bool(hc > 5 * HalfDen),
          host_activity_level |-> Txt(host_activity_level(hc)),
          distance_to_manhattan |-> Num(distance_to_manhattan(lat, lon)),
          neighbourhood_avg_price |-> Num(nyc_avg_prices(group)),
          neighbourhood_density |-> Num(nyc_densities(group)),
          season |-> season_mapping(data["month"]),
          is_peak_season |-> Bool(season_mapping(data["month"]).s \in {"Summer", "Fall"}),
          quarter |-> Num(((data["month"].v - 1) \div 3) + 1),
          availability_category |-> Txt(categorize_availability(av)),
          availability_ratio |-> Num(MilliDiv(av, 365 * HalfDen)),
          is_highly_available |-> Bool(av > 300 * HalfDen),
          is_short_stay |-> Bool(mn <= 3 * HalfDen),
          min_nights_category |-> Txt(categorize_min_nights(mn)),
          reviews_x_availability |-> Num(nr * av),
          host_listings_x_reviews |-> Num(hc * nr),
          location_premium |-> Num(IF group = "Manhattan" THEN lat ELSE 0),
          price_per_review |-> Num(100),
          availability_efficiency |-> Num(IF av > 0 THEN MilliDiv(nr, av) ELSE 0),
          booking_intensity |-> Txt(categorize_booking_intensity(365 * HalfDen - av)),
          price_ratio_to_neighbourhood |-> Num(1) ]

(* The comparison reviews_per_month_filled > 0 and the subtraction         *)
(* month - 1 raise TypeError on a value that is not a number.               *)
AddColumns(data, cols) ==
    [c \in (DOMAIN data) \cup (DOMAIN cols) |->
        IF c \in DOMAIN cols THEN cols[c] ELSE data[c]]

(* The engineering with price_category taken from the encoders the         *)
(* predictor holds at the time of the call                                 *)
EngineerFeaturesFromState(data) ==
    IF data["reviews_per_month"].t \notin {"num", "null"} \/ data["month"].t # "num"
    THEN [ok |-> FALSE, error |-> "TypeError", df |-> data]
    ELSE [ok |-> TRUE, error |-> "",
          df |-> AddColumns(data,
                   [EngineeredColumns(data) EXCEPT
                      !.price_category =
                         IF "price_category" \in DOMAIN predictor.label_encoders
                         THEN Txt("Mid-range") ELSE Txt("Unknown")])]

_engineer_features(data) ==
    IF data["reviews_per_month"].t \notin {"num", "null"}
    THEN [ok |-> FALSE, error |-> "TypeError", df |-> data]
    ELSE IF data["month"].t # "num"
    THEN [ok |-> FALSE, error |-> "TypeError", df |-> data]
    ELSE [ok |-> TRUE, error |-> "", df |-> AddColumns(data, EngineeredColumns(data))]

(***************************************************************************)
(* AirbnbPricePredictor._preprocess_features                               *)
(***************************************************************************)
(* The default 0 for every feature *)
MissingDefaultZero(categorical, feature) == Num(0)

(* The default of a schema feature that is no column of the frame. *)
MissingDefault(categorical, feature) ==
    IF feature \in categorical THEN Txt("Unknown") ELSE Num(0)

WithDefaults(self, df) ==
    [f \in (DOMAIN df) \cup Range(self.all_features) |->
        IF f \in DOMAIN df THEN df[f]
        ELSE MissingDefault(Range(self.categorical_features), f)]

(* str(value) of a cell, as astype(str) gives it to a new LabelEncoder *)
AsStr(cell) == IF cell.t = "text" THEN cell.s
               ELSE IF cell.t = "nan" THEN "nan" ELSE "number"

IndexOf(classes, str) == CHOOSE i \in 1..Len(classes) : classes[i] = str

(* LabelEncoder.transform of the one value of the column: its position in  *)
(* classes_; ok is FALSE where it raises ValueError (unseen label).        *)
Transform(classes, cell) ==
    IF cell.t = "text" /\ cell.s \in Range(classes)
    THEN [ok |-> TRUE, v |-> IndexOf(classes, cell.s) - 1]
    ELSE [ok |-> FALSE, v |-> 0]

(* The loop with an unseen value given the code after the known ones       *)
EncodeCellUnseenLast(label_encoders, feature, cell) ==
    IF feature \in DOMAIN label_encoders
    THEN IF Transform(label_encoders[feature], cell).ok
         THEN Num(Transform(label_encoders[feature], cell).v)
         ELSE Num(Len(label_encoders[feature]))
    ELSE Num(0)

(* The loop over the categorical features: an encoder of the feature       *)
(* transforms the value, 0 on an unseen one; without an encoder a new one  *)
(* is fitted on the value, which it transforms to 0.                       *)
EncodeCell(label_encoders, feature, cell) ==
    IF feature \in DOMAIN label_encoders
    THEN Num(Transform(label_encoders[feature], cell).v)
    ELSE Num(0)

EncodeColumns(self, full) ==
    [f \in DOMAIN full |->
        IF f \in Range(self.categorical_features)
        THEN EncodeCell(self.label_encoders, f, full[f]) ELSE full[f]]

(* self.label_encoders after the loop: the new encoders are stored in it. *)
EncodersAfter(self, full) ==
    [f \in (DOMAIN self.label_encoders) \cup Range(self.categorical_features) |->
        IF f \in DOMAIN self.label_encoders THEN self.label_encoders[f]
        ELSE << AsStr(full[f]) >>]

(* astype(float) of one cell: a string that spells no number raises. *)
CastsToFloat(cell) == cell.t # "text"
IsNaNCell(cell) == cell.t \in {"null", "nan"}

RECURSIVE SumSeq(_)
SumSeq(seq) == IF seq = <<>> THEN 0 ELSE Head(seq) + SumSeq(Tail(seq))

(* df[self.all_features] after the encoding: the row in schema order *)
SelectRow(self, encoded) ==
    [i \in 1..Len(self.all_features) |-> encoded[self.all_features[i]]]

(* scaler.transform; it raises when the scaler is not fitted or was fitted *)
(* on another number of features, and the raw row is used.  Without a      *)
(* scaler the row is normalised by its own mean and deviation: one row has *)
(* no deviation, every entry becomes NaN and fillna(0) makes it 0.         *)
Scaling(scaler, row) ==
    IF IsNone(scaler) THEN "basic"
    ELSE IF Get(scaler).fitted /\ Get(scaler).n_features = Len(row) THEN "scaler"
    ELSE "raw"

Scaled(scaler, row) ==
    [i \in 1..Len(row) |->
        CASE Scaling(scaler, row) = "basic" -> 0
          [] Scaling(scaler, row) = "scaler" -> row[i].v - Get(scaler).center
          [] OTHER -> row[i].v]

(* What a run of the preprocessing logs as warnings. *)
PreprocessEvents(self, df, full, scaling) ==
    (IF \E f \in Range(self.all_features) : f \notin DOMAIN df
     THEN << "missing_feature" >> ELSE <<>>)
    \o (IF \E f \in Range(self.categorical_features) :
             /\ f \in DOMAIN self.label_encoders
             /\ ~Transform(self.label_encoders[f], full[f]).ok
        THEN << "unseen_category" >> ELSE <<>>)
    \o (IF \E f \in Range(self.categorical_features) : f \notin DOMAIN self.label_encoders
        THEN << "no_label_encoder" >> ELSE <<>>)
    \o (IF scaling = "basic" THEN << "no_scaler" >>
        ELSE IF scaling = "raw" THEN << "scaling_error" >> ELSE <<>>)

PreprocessRow(self, df, full, row) ==
    IF \E i \in 1..Len(row) : ~CastsToFloat(row[i])
    THEN [ok |-> FALSE, error |-> "ValueError", X |-> <<>>,
          label_encoders |-> EncodersAfter(self, full), has_nan |-> FALSE, events |-> <<>>]
    ELSE [ok |-> TRUE, error |-> "", X |-> Scaled(self.scaler, row),
          label_encoders |-> EncodersAfter(self, full),
          has_nan |-> \E i \in 1..Len(row) : IsNaNCell(row[i]),
          events |-> PreprocessEvents(self, df, full, Scaling(self.scaler, row))]

PreprocessFull(self, df, full) ==
    PreprocessRow(self, df, full, SelectRow(self, EncodeColumns(self, full)))

_preprocess_features(self, df) == PreprocessFull(self, df, WithDefaults(self, df))

(***************************************************************************)
(* The regressors.  A loaded model is a function of the preprocessed       *)
(* vector; it raises on a vector of another width than it was trained on.  *)
(***************************************************************************)
VecKey(X) == SumSeq(X) % 5

ModelPredict(model, X) ==
    IF Len(X) # model.n_inputs THEN [ok |-> FALSE, v |-> 0]
    ELSE [ok |-> TRUE, v |-> model.base + WDen * VecKey(X)]

(***************************************************************************)
(* AirbnbPricePredictor.predict                                            *)
(***************************************************************************)
Min(a, b) == IF a <= b THEN a ELSE b
Max(a, b) == IF a >= b THEN a ELSE b

(* The bounds without the upper one *)
ApplyBoundsNoCeiling(p) == Max(10 * PriceDen, p)

(* max(10, min(10000, final_prediction)) *)
ApplyBounds(p) == Max(10 * PriceDen, Min(10000 * PriceDen, p))

(* round(x, 2): to the nearest hundredth, a tie to the even hundredth *)
RoundTo(p, unit) ==
    IF 2 * (p % unit) < unit THEN (p \div unit) * unit
    ELSE IF 2 * (p % unit) > unit THEN ((p \div unit) + 1) * unit
    ELSE IF (p \div unit) % 2 = 0 THEN (p \div unit) * unit
    ELSE ((p \div unit) + 1) * unit
Round2(p) == RoundTo(p, PriceDen \div 100)

(* predictions.get(name, 0) *)
GetOr0(predictions, name) == IF name \in DOMAIN predictions THEN predictions[name] ELSE 0

(* The weighted sum divided by the sum of the weights *)
WeightedSumNormalized(weights, model_preds) ==
    SumSeq([i \in 1..Min(Len(weights), Len(model_preds)) |-> weights[i] * model_preds[i]])
        \div SumSeq(weights)

(* sum(w * p for w, p in zip(self.ensemble_weights, model_preds)) *)
WeightedSum(weights, model_preds) ==
    SumSeq([i \in 1..Min(Len(weights), Len(model_preds)) |-> weights[i] * model_preds[i]])
        \div WDen

SetMin(S) == CHOOSE m \in S : \A o \in S : m <= o
SetMax(S) == CHOOSE m \in S : \A o \in S : m >= o

(* list(predictions.values()): the values in the order of insertion *)
ModelNames == << "neural_network", "random_forest", "gradient_boosting", "ridge", "ensemble" >>
ValueSeq(fn) ==
    LET F[i \in 0..Len(ModelNames)] ==
          IF i = 0 THEN <<>>
          ELSE IF ModelNames[i] \in DOMAIN fn THEN Append(F[i - 1], fn[ModelNames[i]])
          ELSE F[i - 1]
    IN  F[Len(ModelNames)]

(* np.std of a list of values, in units of 1/PriceDen.  Deviations are     *)
(* squared in hundredths of a currency unit, and in tens of currency units *)
(* when one exceeds 150, to stay within 32-bit integers.                   *)
Deviations(vals, mean, unit) == [i \in 1..Len(vals) |-> Abs(vals[i] - mean) \div unit]
Squares(dev) == [i \in 1..Len(dev) |-> dev[i] * dev[i]]
StdUnit(vals, mean) ==
    IF \E i \in 1..Len(vals) : Abs(vals[i] - mean) > 150 * PriceDen
    THEN 10 * PriceDen ELSE PriceDen \div 100
StdAround(vals, mean, unit) ==
    unit * Isqrt(SumSeq(Squares(Deviations(vals, mean, unit))) \div Len(vals))
StdOf(vals, mean) == StdAround(vals, mean, StdUnit(vals, mean))
StdDev(vals) == StdOf(vals, SumSeq(vals) \div Len(vals))

(* An error dictionary that keeps the fields of a degraded success *)
ErrorResultLowConfidence(self, error) ==
    [ predicted_price |-> None, error |-> error, model_used |-> Some("neural_network"),
      model_version |-> self.model_version, confidence_level |-> "low" ]

ErrorResult(self, error) ==
    [ predicted_price |-> None, error |-> error, model_used |-> None,
      model_version |-> self.model_version, confidence_level |-> "error" ]

(* One model invocation, predictions[name] = float(model.predict(...)):    *)
(* acc is the dictionary so far with the invocations made; a model that    *)
(* is not used leaves it, an invocation that raises ends the call.         *)
Invoke(acc, name, used, model, X) ==
    IF ~acc.ok \/ ~used THEN acc
    ELSE IF ~ModelPredict(Get(model), X).ok
    THEN [acc EXCEPT !.ok = FALSE, !.invoked = Append(@, name)]
    ELSE [ ok |-> TRUE, invoked |-> Append(acc.invoked, name),
           predictions |-> acc.predictions @@ (name :> ModelPredict(Get(model), X).v) ]

NoPredictions == [ok |-> TRUE, invoked |-> <<>>, predictions |-> [m \in {} |-> 0]]

(* The blended estimate, added when more than one estimate exists. *)
EnsemblePrediction(self, acc) ==
    IF /\ acc.ok /\ self.is_ensemble
       /\ Cardinality(DOMAIN acc.predictions) > 1
       /\ ~IsNone(self.ensemble_weights)
    THEN [acc EXCEPT !.predictions =
            @ @@ ("ensemble" :>
                    WeightedSum(Get(self.ensemble_weights),
                                << GetOr0(acc.predictions, "neural_network"),
                                   GetOr0(acc.predictions, "random_forest"),
                                   GetOr0(acc.predictions, "gradient_boosting"),
                                   GetOr0(acc.predictions, "ridge") >>))]
    ELSE acc

(* The dictionary predictions after the model invocations. *)
ModelPredictions(self, X) ==
    EnsemblePrediction(self,
      Invoke(
        Invoke(
          Invoke(
            Invoke(NoPredictions, "neural_network",
                   Truthy(self.neural_network), self.neural_network, X),
            "random_forest", self.is_ensemble /\ Truthy(self.rf_model), self.rf_model, X),
          "gradient_boosting", self.is_ensemble /\ Truthy(self.gb_model), self.gb_model, X),
        "ridge", self.is_ensemble /\ Truthy(self.ridge_model), self.ridge_model, X))

(* The choice with the network estimate preferred *)
ModelUsedNetworkFirst(predictions) ==
    IF "neural_network" \in DOMAIN predictions THEN "neural_network" ELSE "ensemble"

(* The choice of the final prediction *)
ModelUsed(predictions) ==
    IF "ensemble" \in DOMAIN predictions THEN "ensemble" ELSE "neural_network"

ConfidenceMetrics(pred_values) ==
    [ prediction_std |-> Round2(StdDev(pred_values)),
      prediction_range |-> [ min |-> Round2(SetMin(Range(pred_values))),
                             max |-> Round2(SetMax(Range(pred_values))) ] ]

(* The result with the confidence taken from the presence of the weights *)
SuccessResultConfidentOnWeights(self, predictions) ==
    [ predicted_price |-> Some(Round2(ApplyBounds(predictions[ModelUsed(predictions)]))),
      model_used |-> Some(ModelUsed(predictions)),
      model_version |-> self.model_version,
      individual_predictions |-> predictions,
      confidence_level |-> IF ~IsNone(self.ensemble_weights) THEN "high" ELSE "medium",
      features_used |-> Len(self.all_features),
      input_validation |-> "passed",
      warnings |-> <<>> ]
    @@ (IF Cardinality(DOMAIN predictions) > 1
        THEN ConfidenceMetrics(ValueSeq(predictions))
        ELSE [k \in {} |-> 0])

(* The result dictionary of a call that selected a final prediction. *)
SuccessResult(self, predictions) ==
    [ predicted_price |-> Some(Round2(ApplyBounds(predictions[ModelUsed(predictions)]))),
      model_used |-> Some(ModelUsed(predictions)),
      model_version |-> self.model_version,
      individual_predictions |-> predictions,
      confidence_level |-> IF self.is_ensemble THEN "high" ELSE "medium",
      features_used |-> Len(self.all_features),
      input_validation |-> "passed",
      warnings |-> <<>> ]
    @@ (IF Cardinality(DOMAIN predictions) > 1
        THEN ConfidenceMetrics(ValueSeq(predictions))
        ELSE [k \in {} |-> 0])

(* predict: the returned dictionary, the predictor object after the call,  *)
(* the stages the call went through, the warnings it logged, and the step  *)
(* whose exception the except clause caught ("" when none was raised).     *)
Outcome(result, self, stages, events, raised) ==
    [ result |-> result, self |-> self, stages |-> stages, events |-> events,
      raised |-> raised ]

PredictModels(self, pre, models) ==
    IF ~models.ok
    THEN Outcome(ErrorResult(self, "model invocation failed"), self,
                 << "validate", "engineer", "preprocess" >> \o models.invoked,
                 pre.events, "model invocation")
    ELSE IF DOMAIN models.predictions = {}
    THEN Outcome(ErrorResult(self, "No model predictions available"), self,
                 << "validate", "engineer", "preprocess" >> \o models.invoked,
                 pre.events, "selection")
    ELSE Outcome(SuccessResult(self, models.predictions), self,
                 << "validate", "engineer", "preprocess" >> \o models.invoked,
                 pre.events, "")

PredictPreprocessed(self, pre) ==
    IF ~pre.ok
    THEN Outcome(ErrorResult(self, pre.error), self,
                 << "validate", "engineer", "preprocess" >>, <<>>, "preprocessing")
    ELSE PredictModels(self, pre, ModelPredictions(self, pre.X))

PredictWithEncoders(self, pre) ==
    PredictPreprocessed([self EXCEPT !.label_encoders = pre.label_encoders], pre)

PredictEngineered(self, engineered) ==
    IF ~engineered.ok
    THEN Outcome(ErrorResult(self, engineered.error), self, << "validate", "engineer" >>,
                 <<>>, "feature engineering")
    ELSE PredictWithEncoders(self, _preprocess_features(self, engineered.df))

PredictValidated(self, validated) ==
    IF ~validated.ok
    THEN Outcome(ErrorResult(self, validated.error), self, << "validate" >>, <<>>,
                 "validation")
    ELSE PredictEngineered(self, _engineer_features(validated.data))

predict(self, input_data) == PredictValidated(self, _validate_input(input_data))

(***************************************************************************)
(* AirbnbPricePredictor.predict_batch: the items in order, each result     *)
(* tagged with its index; the predictor object is threaded through.        *)
(***************************************************************************)
(* The loop step with the index counted from one *)
BatchStepCountingFromOne(before, one, i) ==
    [ results |-> Append(before.results, one.result @@ ("batch_index" :> i + 1)),
      self |-> one.self,
      stages |-> Append(before.stages, one.stages),
      events |-> Append(before.events, one.events),
      raised |-> Append(before.raised, one.raised) ]

BatchStep(before, one, i) ==
    [ results |-> Append(before.results, one.result @@ ("batch_index" :> i)),
      self |-> one.self,
      stages |-> Append(before.stages, one.stages),
      events |-> Append(before.events, one.events),
      raised |-> Append(before.raised, one.raised) ]

BatchItem(before, input_data, i) == BatchStep(before, predict(before.self, input_data), i)

(* for i, input_data in enumerate(input_list): the items lo..hi in order,   *)
(* the second half starting from the outcome of the first.                 *)
RECURSIVE BatchLoop(_, _, _, _)
BatchLoop(before, input_list, lo, hi) ==
    IF lo > hi THEN before
    ELSE IF lo = hi THEN BatchItem(before, input_list[lo], lo - 1)
    ELSE CHOOSE after \in
            { BatchLoop(half, input_list, ((lo + hi) \div 2) + 1, hi) :
                half \in {BatchLoop(before, input_list, lo, (lo + hi) \div 2)} } : TRUE

predict_batch(self, input_list) ==
    BatchLoop([ results |-> <<>>, self |-> self, stages |-> <<>>, events |-> <<>>,
                raised |-> <<>> ],
              input_list, 1, Len(input_list))

(* get_model_info *)
get_model_info(self) ==
    [ model_version |-> self.model_version,
      is_ensemble |-> self.is_ensemble,
      available_models |->
         [ neural_network |-> ~IsNone(self.neural_network),
           random_forest |-> ~IsNone(self.rf_model),
           gradient_boosting |-> ~IsNone(self.gb_model),
           ridge_regression |-> ~IsNone(self.ridge_model) ],
      feature_counts |->
         [ total |-> Len(self.all_features),
           categorical |-> Len(self.categorical_features),
           numerical |-> Len(self.numerical_features),
           binary |-> Len(self.binary_features) ],
      preprocessing |->
         [ scaler_available |-> ~IsNone(self.scaler),
           label_encoders_count |-> Cardinality(DOMAIN self.label_encoders),
           ensemble_weights_available |-> ~IsNone(self.ensemble_weights) ] ]

(***************************************************************************)
(* Calls.  call records the operation in progress or just answered: its    *)
(* arguments, the result dictionaries of the predictor, the stages each    *)
(* item went through, and for an HTTP request the response.                *)
(***************************************************************************)
(* The frames _engineer_features returned within the calls of predict on   *)
(* args, None for an item that did not pass the feature engineering.       *)
FramesOf(args, stages) ==
    [i \in DOMAIN args |->
        IF "preprocess" \in Range(stages[i])
        THEN Some(_engineer_features(_validate_input(args[i]).data).df)
        ELSE None]

NoCall == [op |-> "none", args |-> <<>>, results |-> <<>>, stages |-> <<>>,
           events |-> <<>>, raised |-> <<>>, status |-> 0, body |-> "none",
           validation_errors |-> <<>>, engineered |-> <<>>]

BatchLimit == 100

EmptyRecord == [f \in {} |-> Null]

BatchLists == UNION { [1..n -> BatchInputs] : n \in 0..MaxBatch }

(***************************************************************************)
(* The directories the model starts from: a complete one, and the complete *)
(* one with one or two things changed.                                      *)
(***************************************************************************)
full_schema == [categorical_features |-> fallback_categorical_features,
                numerical_features |-> fallback_numerical_features,
                binary_features |-> fallback_binary_features]
extended_schema == [categorical_features |-> extended_categorical_features,
                    numerical_features |-> extended_numerical_features,
                    binary_features |-> fallback_binary_features]

FullDirectory ==
    [ nn |-> [state |-> "ok", base |-> 123456],
      rf |-> [state |-> "ok", base |-> 120000],
      gb |-> [state |-> "ok", base |-> 200000],
      ridge |-> [state |-> "ok", base |-> -8000],
      width |-> SchemaWidth(full_schema),
      package_state |-> "ok",
      package |-> [ scaler |-> Some(trained_scaler(full_schema)),
                    label_encoders |-> Some(trained_label_encoders(full_schema)),
                    ensemble_weights |-> Some(<< 2, 1, 1, 0 >>),
                    schema |-> full_schema ] ]

(* The changes; a directory with two changes has them applied in the order *)
(* of their numbers, so that the package is first trained on its schema.   *)
NumChanges == 20
Change(dir, k) ==
    CASE k = 1 -> [dir EXCEPT !.package =
                      [ scaler |-> Some(trained_scaler(extended_schema)),
                        label_encoders |-> Some(trained_label_encoders(extended_schema)),
                        ensemble_weights |-> dir.package.ensemble_weights,
                        schema |-> extended_schema ]]
      [] k = 2 -> [dir EXCEPT !.width = SchemaWidth(extended_schema)]
      [] k = 3 -> [dir EXCEPT !.nn.state = "absent"]
      [] k = 4 -> [dir EXCEPT !.nn.state = "corrupt"]
      [] k = 5 -> [dir EXCEPT !.nn.base = 4000]
      [] k = 6 -> [dir EXCEPT !.nn.base = 50000000]
      [] k = 7 -> [dir EXCEPT !.rf.state = "absent"]
      [] k = 8 -> [dir EXCEPT !.rf.state = "corrupt"]
      [] k = 9 -> [dir EXCEPT !.gb.state = "absent"]
      [] k = 10 -> [dir EXCEPT !.gb.state = "corrupt"]
      [] k = 11 -> [dir EXCEPT !.ridge.state = "absent"]
      [] k = 12 -> [dir EXCEPT !.ridge.state = "corrupt"]
      [] k = 13 -> [dir EXCEPT !.ridge.base = 40000000]
      [] k = 14 -> [dir EXCEPT !.package_state = "absent"]
      [] k = 15 -> [dir EXCEPT !.package_state = "corrupt"]
      [] k = 16 -> [dir EXCEPT !.package.scaler = None]
      [] k = 17 -> [dir EXCEPT !.package.scaler =
                       Some([fitted |-> TRUE, center |-> 1,
                             n_features |-> SchemaWidth(dir.package.schema) + 1])]
      [] k = 18 -> [dir EXCEPT !.package.label_encoders = None]
      [] k = 19 -> [dir EXCEPT !.package.ensemble_weights = None]
      [] OTHER -> [dir EXCEPT !.package.ensemble_weights = Some(<< 4, 2, 1, 1 >>)]

Directories ==
    {FullDirectory}
      \cup { Change(FullDirectory, k) : k \in 1..NumChanges }
      \cup { Change(Change(FullDirectory, jk[1]), jk[2]) :
                jk \in { p \in (1..NumChanges) \X (1..NumChanges) : p[1] < p[2] } }

(* The request threads: a thread serves one call of predict at a time.     *)
(* pc is its position in the call, i the index of the categorical feature  *)
(* its loop is at, codes the encoded values it has so far; observed_partial*)
(* tells that it read the encoder set while another call was filling it.   *)
NumThreads == 2
Threads == 1..NumThreads
IdleThread == [ pc |-> "idle", input_data |-> EmptyRecord, i |-> 0, codes |-> <<>>,
                result |-> None, observed_partial |-> FALSE ]

Init ==
    /\ artifacts \in Directories
    /\ phase = "start"
    /\ predictor_set = FALSE
    /\ predictor = NewPredictor
    /\ call = NoCall
    /\ threads = [t \in Threads |-> IdleThread]
    /\ etl = NoEtl

(* deploy.py initialize_predictor: predictor = load_predictor(model_dir);  *)
(* a constructor that raises leaves the global predictor None.             *)
initialize_predictor ==
    /\ phase = "start"
    /\ \E r \in {_load_models(NewPredictor)} :
           /\ predictor_set' = ~r.raised
           /\ predictor' = IF r.raised THEN NewPredictor ELSE r.self
    /\ phase' = "idle"
    /\ UNCHANGED << artifacts, call, threads, etl >>

(* A direct call of predictor.predict(input_data) *)
Predict ==
    /\ phase = "idle" /\ predictor_set
    /\ \E input_data \in Inputs :
         \E r \in {predict(predictor, input_data)} :
             /\ predictor' = r.self
             /\ call' = [NoCall EXCEPT !.op = "predict", !.args = << input_data >>,
                                       !.results = << r.result >>,
                                       !.stages = << r.stages >>,
                                       !.events = << r.events >>,
                                       !.raised = << r.raised >>,
                                       !.engineered =
                                           FramesOf(<< input_data >>, << r.stages >>)]
    /\ phase' = "responded"
    /\ UNCHANGED << artifacts, predictor_set, threads, etl >>

(* A direct call of predictor.predict_batch(input_list) *)
PredictBatch ==
    /\ phase = "idle" /\ predictor_set
    /\ \E input_list \in BatchLists :
         \E r \in {predict_batch(predictor, input_list)} :
             /\ predictor' = r.self
             /\ call' = [NoCall EXCEPT !.op = "predict_batch", !.args = input_list,
                                       !.results = r.results, !.stages = r.stages,
                                       !.events = r.events, !.raised = r.raised,
                                       !.engineered = FramesOf(input_list, r.stages)]
    /\ phase' = "responded"
    /\ UNCHANGED << artifacts, predictor_set, threads, etl >>

(* A direct call of predictor.get_model_info() *)
GetModelInfo ==
    /\ phase = "idle" /\ predictor_set
    /\ call' = [NoCall EXCEPT !.op = "get_model_info",
                              !.results = << get_model_info(predictor) >>]
    /\ phase' = "responded"
    /\ UNCHANGED << artifacts, predictor_set, predictor, threads, etl >>

(* deploy.py predict_price: POST /predict.  The request is a body that is  *)
(* JSON or not, and the JSON object it holds.                              *)
Requests ==
    { [is_json |-> FALSE, data |-> EmptyRecord] }
      \cup { [is_json |-> TRUE, data |-> d] : d \in Inputs \cup {EmptyRecord} }

Response(op, request, status, body) ==
    [NoCall EXCEPT !.op = op, !.args = request, !.status = status, !.body = body]

(* The checks of predict_price before the prediction, in their order: the  *)
(* status and the message of the first that fails, 0 when all pass.        *)
PredictPriceRejection(request, errors) ==
    IF ~predictor_set THEN [status |-> 503, body |-> "Model not loaded", errors |-> <<>>]
    ELSE IF ~request.is_json
    THEN [status |-> 400, body |-> "Invalid content type", errors |-> <<>>]
    ELSE IF DOMAIN request.data = {}
    THEN [status |-> 400, body |-> "No data provided", errors |-> <<>>]
    ELSE IF errors # <<>>
    THEN [status |-> 400, body |-> "Invalid input data", errors |-> << errors >>]
    ELSE [status |-> 0, body |-> "", errors |-> <<>>]

predict_price ==
    /\ phase = "idle"
    /\ \E request \in Requests :
         \E rejection \in {PredictPriceRejection(request,
                                                 validate_prediction_input(request.data))} :
           IF rejection.status # 0
           THEN /\ call' = [Response("POST /predict", << request.data >>,
                                     rejection.status, rejection.body)
                              EXCEPT !.validation_errors = rejection.errors]
                /\ UNCHANGED predictor
           ELSE \E r \in {predict(predictor, request.data)} :
                /\ predictor' = r.self
                /\ call' = [Response("POST /predict", << request.data >>,
                                     IF IsNone(r.result.predicted_price) THEN 500 ELSE 200,
                                     IF IsNone(r.result.predicted_price)
                                     THEN "Prediction failed" ELSE "result")
                              EXCEPT !.results = << r.result >>,
                                     !.stages = << r.stages >>,
                                     !.events = << r.events >>,
                                     !.raised = << r.raised >>,
                                     !.engineered =
                                         FramesOf(<< request.data >>, << r.stages >>)]
    /\ phase' = "responded"
    /\ UNCHANGED << artifacts, predictor_set, threads, etl >>

(* deploy.py predict_batch: POST /predict/batch.  All items are validated  *)
(* first; the predictor is called when none has an error.                  *)
BatchRequests ==
    { [is_json |-> FALSE, has_predictions |-> FALSE, is_list |-> FALSE, predictions |-> <<>>],
      [is_json |-> TRUE, has_predictions |-> FALSE, is_list |-> FALSE, predictions |-> <<>>],
      [is_json |-> TRUE, has_predictions |-> TRUE, is_list |-> FALSE, predictions |-> <<>>] }
      \cup { [is_json |-> TRUE, has_predictions |-> TRUE, is_list |-> TRUE, predictions |-> l] :
               l \in BatchLists \cup { << item, [json |-> Num(5)] >> : item \in BatchInputs } }

(* Requests at the limit of the batch size: lists of 100 and of 101 copies *)
(* of the example listing, and the empty list.                             *)
LimitRequests ==
    { [is_json |-> TRUE, has_predictions |-> TRUE, is_list |-> TRUE,
       predictions |-> [i \in 1..n |-> example_data]] :
         n \in {0, 1, BatchLimit - 1, BatchLimit, BatchLimit + 1} }

(* An item of the JSON array is an object, or another JSON value, given as  *)
(* [json |-> value].  validate_prediction_input tests "field not in data"  *)
(* outside its try block: on a number or null the test raises TypeError,   *)
(* which the handler of the endpoint answers with 500.                     *)
IsObject(item) == "json" \notin DOMAIN item

(* validation_errors: the entries {index, errors} of the invalid items *)
ItemErrors(i, errors) ==
    IF errors # <<>> THEN << [index |-> i - 1, errors |-> errors] >> ELSE <<>>

(* for i, item in enumerate(predictions_data): the items lo..hi in order *)
RECURSIVE BatchValidationErrors(_, _, _)
BatchValidationErrors(predictions_data, lo, hi) ==
    IF lo > hi THEN <<>>
    ELSE IF lo = hi
    THEN ItemErrors(lo, validate_prediction_input(predictions_data[lo]))
    ELSE BatchValidationErrors(predictions_data, lo, (lo + hi) \div 2)
           \o BatchValidationErrors(predictions_data, ((lo + hi) \div 2) + 1, hi)

(* The checks without the limit of the batch size *)
BatchRejectionWithoutLimit(request, validation_errors) ==
    IF ~predictor_set
    THEN [status |-> 503, body |-> "Model not loaded", errors |-> <<>>]
    ELSE IF ~request.is_json
    THEN [status |-> 400, body |-> "Invalid content type", errors |-> <<>>]
    ELSE IF ~request.has_predictions
    THEN [status |-> 400, body |-> "Invalid request format", errors |-> <<>>]
    ELSE IF ~request.is_list
    THEN [status |-> 400, body |-> "Invalid data type", errors |-> <<>>]
    ELSE IF Len(request.predictions) = 0
    THEN [status |-> 400, body |-> "Empty predictions array", errors |-> <<>>]
    ELSE IF \E i \in DOMAIN request.predictions : ~IsObject(request.predictions[i])
    THEN [status |-> 500, body |-> "Internal server error", errors |-> <<>>]
    ELSE IF validation_errors # <<>>
    THEN [status |-> 400, body |-> "Validation failed", errors |-> validation_errors]
    ELSE [status |-> 0, body |-> "", errors |-> <<>>]

(* The checks of the batch endpoint before the predictions, in their order *)
BatchRejection(request, validation_errors) ==
    IF ~predictor_set
    THEN [status |-> 503, body |-> "Model not loaded", errors |-> <<>>]
    ELSE IF ~request.is_json
    THEN [status |-> 400, body |-> "Invalid content type", errors |-> <<>>]
    ELSE IF ~request.has_predictions
    THEN [status |-> 400, body |-> "Invalid request format", errors |-> <<>>]
    ELSE IF ~request.is_list
    THEN [status |-> 400, body |-> "Invalid data type", errors |-> <<>>]
    ELSE IF Len(request.predictions) = 0
    THEN [status |-> 400, body |-> "Empty predictions array", errors |-> <<>>]
    ELSE IF Len(request.predictions) > BatchLimit
    THEN [status |-> 400, body |-> "Batch size too large", errors |-> <<>>]
    ELSE IF \E i \in DOMAIN request.predictions : ~IsObject(request.predictions[i])
    THEN [status |-> 500, body |-> "Internal server error", errors |-> <<>>]
    ELSE IF validation_errors # <<>>
    THEN [status |-> 400, body |-> "Validation failed", errors |-> validation_errors]
    ELSE [status |-> 0, body |-> "", errors |-> <<>>]

BatchEndpoint(requests) ==
    /\ phase = "idle"
    /\ \E request \in requests :
         \E rejection \in {BatchRejection(request,
                                          BatchValidationErrors(request.predictions, 1,
                                                                Len(request.predictions)))} :
           IF rejection.status # 0
           THEN /\ call' = [Response("POST /predict/batch", request.predictions,
                                     rejection.status, rejection.body)
                              EXCEPT !.validation_errors = rejection.errors]
                /\ UNCHANGED predictor
           ELSE \E r \in {predict_batch(predictor, request.predictions)} :
                /\ predictor' = r.self
                /\ call' = [Response("POST /predict/batch", request.predictions,
                                     200, "predictions")
                              EXCEPT !.results = r.results, !.stages = r.stages,
                                     !.events = r.events, !.raised = r.raised,
                                     !.engineered = FramesOf(request.predictions, r.stages)]
    /\ phase' = "responded"
    /\ UNCHANGED << artifacts, predictor_set, threads, etl >>

deploy_predict_batch == BatchEndpoint(BatchRequests)

(* POST /predict/batch with a request at the limit of the batch size *)
deploy_predict_batch_at_limit == BatchEndpoint(LimitRequests)

(* The caller has taken the answer; the service waits for the next call. *)
Return ==
    /\ phase = "responded"
    /\ phase' = "idle"
    /\ call' = NoCall
    /\ UNCHANGED << artifacts, predictor_set, predictor, threads, etl >>

Next ==
    \/ initialize_predictor
    \/ Predict
    \/ PredictBatch
    \/ GetModelInfo
    \/ predict_price
    \/ deploy_predict_batch
    \/ Return

Spec == Init /\ [][Next]_vars

(***************************************************************************)
(* Concurrent requests.  The server runs with threaded=True: every request *)
(* is served by its own thread, and all threads call predict on the one    *)
(* predictor object.  A call is interleaved with the others between the    *)
(* statements that read or write self.label_encoders; its other statements *)
(* work on local values and on attributes no statement assigns.            *)
(***************************************************************************)
ConcurrentDirectories ==
    { FullDirectory, Change(FullDirectory, 14), Change(FullDirectory, 18) }

ConcurrentInputs ==
    { example_data,
      With(example_data, "neighbourhood_group", Txt("Brooklyn")),
      With(example_data, "minimum_nights", Num(-1 * HalfDen)) }

InitThreads ==
    /\ artifacts \in ConcurrentDirectories
    /\ phase = "start"
    /\ predictor_set = FALSE
    /\ predictor = NewPredictor
    /\ call = NoCall
    /\ threads = [t \in Threads |-> IdleThread]
    /\ etl = NoEtl

(* The frame a call works on after validation, feature engineering and the *)
(* defaults of the missing features.                                       *)
ThreadFrame(self, input_data) ==
    WithDefaults(self, _engineer_features(_validate_input(input_data).data).df)

(* The position after the categorical feature at index i *)
AfterFeature(self, i) ==
    IF i >= Len(self.categorical_features) THEN "astype" ELSE "check"

(* predict up to the loop over the categorical features: an exception of   *)
(* the validation or of the feature engineering ends the call.             *)
ThreadEntered(self, input_data, entry) ==
    IF IsNone(entry.result.predicted_price)
    THEN [ pc |-> "done", input_data |-> input_data, i |-> 0, codes |-> <<>>,
           result |-> Some(entry.result), observed_partial |-> FALSE ]
    ELSE [ pc |-> AfterFeature(self, 0), input_data |-> input_data, i |-> 1,
           codes |-> <<>>, result |-> None, observed_partial |-> FALSE ]

ThreadBegin(t) ==
    /\ phase = "idle" /\ predictor_set
    /\ threads[t].pc = "idle"
    /\ \E input_data \in ConcurrentInputs :
         threads' = [threads EXCEPT ![t] =
                       ThreadEntered(predictor, input_data,
                                     PredictValidated(predictor, _validate_input(input_data)))]
    /\ UNCHANGED << artifacts, phase, predictor_set, predictor, call, etl >>

(* The encoders the constructor loaded *)
LoadedEncoders == DOMAIN _load_models(NewPredictor).self.label_encoders

(* The encoder set holds an encoder stored after the load and lacks one of *)
(* a categorical feature: a call is filling it.                            *)
PartlyFilled(self, feature) ==
    /\ feature \notin LoadedEncoders
    /\ \E g \in Range(self.categorical_features) : g \notin DOMAIN self.label_encoders

(* if feature in self.label_encoders: the encoder is read and transforms   *)
(* the value (0 on an unseen one); otherwise the call goes on to fit one.  *)
ThreadChecked(self, th, feature, cell) ==
    IF feature \in DOMAIN self.label_encoders
    THEN [th EXCEPT !.codes = Append(@, Transform(self.label_encoders[feature], cell).v),
                    !.i = @ + 1,
                    !.pc = AfterFeature(self, th.i),
                    !.observed_partial = @ \/ PartlyFilled(self, feature)]
    ELSE [th EXCEPT !.pc = "store"]

ThreadCheck(t) ==
    /\ threads[t].pc = "check"
    /\ \E full \in {ThreadFrame(predictor, threads[t].input_data)} :
         threads' = [threads EXCEPT ![t] =
                       ThreadChecked(predictor, threads[t],
                                     predictor.categorical_features[threads[t].i],
                                     full[predictor.categorical_features[threads[t].i]])]
    /\ UNCHANGED << artifacts, phase, predictor_set, predictor, call, etl >>

(* le = LabelEncoder(); fit_transform; self.label_encoders[feature] = le:  *)
(* the new encoder replaces one another call stored since the test.        *)
ThreadStore(t) ==
    /\ threads[t].pc = "store"
    /\ \E full \in {ThreadFrame(predictor, threads[t].input_data)} :
         \E feature \in {predictor.categorical_features[threads[t].i]} :
           predictor' = [predictor EXCEPT !.label_encoders =
                           [f \in (DOMAIN @) \cup {feature} |->
                              IF f = feature THEN << AsStr(full[feature]) >> ELSE @[f]]]
    /\ threads' = [threads EXCEPT ![t].codes = Append(@, 0),
                                  ![t].i = @ + 1,
                                  ![t].pc = AfterFeature(predictor, threads[t].i)]
    /\ UNCHANGED << artifacts, phase, predictor_set, call, etl >>

(* astype(float), the scaling, the model invocations and the result, on    *)
(* the frame with the codes of the call in its categorical columns.        *)
ThreadResult(self, input_data, full, codes) ==
    PredictPreprocessed(self,
        PreprocessRow(self, _engineer_features(_validate_input(input_data).data).df, full,
                      SelectRow(self,
                          [f \in DOMAIN full |->
                              IF f \in Range(self.categorical_features)
                              THEN Num(codes[IndexOf(self.categorical_features, f)])
                              ELSE full[f]]))).result

ThreadFinish(t) ==
    /\ threads[t].pc = "astype"
    /\ threads' = [threads EXCEPT
                     ![t].result =
                         Some(ThreadResult(predictor, threads[t].input_data,
                                           ThreadFrame(predictor, threads[t].input_data),
                                           threads[t].codes)),
                     ![t].pc = "done"]
    /\ UNCHANGED << artifacts, phase, predictor_set, predictor, call, etl >>

(* The response is sent and the thread takes the next request. *)
ThreadReturn(t) ==
    /\ threads[t].pc = "done"
    /\ threads' = [threads EXCEPT ![t] = IdleThread]
    /\ UNCHANGED << artifacts, phase, predictor_set, predictor, call, etl >>

NextThreads ==
    \/ initialize_predictor
    \/ \E t \in Threads : ThreadBegin(t)
    \/ \E t \in Threads : ThreadCheck(t)
    \/ \E t \in Threads : ThreadStore(t)
    \/ \E t \in Threads : ThreadFinish(t)
    \/ \E t \in Threads : ThreadReturn(t)

SpecThreads == InitThreads /\ [][NextThreads]_vars

(***************************************************************************)
(* The service under requests at the limit of the batch size, between      *)
(* calls of predict that change the predictor.                             *)
(***************************************************************************)
NextLimit ==
    \/ initialize_predictor
    \/ Predict
    \/ deploy_predict_batch_at_limit
    \/ Return

SpecLimit == InitThreads /\ [][NextLimit]_vars

(***************************************************************************)
(* Properties.  The result dictionaries of the last call are call.results, *)
(* the input of result i is call.args[i].                                  *)
(***************************************************************************)
PredictionOps == {"predict", "predict_batch", "POST /predict", "POST /predict/batch"}
Succeeded(r) == ~IsNone(r.predicted_price)
Price(r) == Get(r.predicted_price)
LowestPrice == 10 * PriceDen
HighestPrice == 10000 * PriceDen

(* price is the estimate brought into [10, 10000] and rounded to cents *)
ClampedAndRounded(estimate, price) ==
    /\ LowestPrice <= price /\ price <= HighestPrice
    /\ price % (PriceDen \div 100) = 0
    /\ estimate > HighestPrice => price = HighestPrice
    /\ estimate < LowestPrice => price = LowestPrice
    /\ (LowestPrice <= estimate /\ estimate <= HighestPrice)
          => 2 * Abs(price - estimate) <= PriceDen \div 100

(* C1: every successful result has its price within [10, 10000]; a         *)
(* selected estimate above 10000 is returned as 10000 and one below 10 as  *)
(* 10.                                                                     *)
C1_PriceWithinBounds ==
    call.op \in PredictionOps =>
      \A i \in DOMAIN call.results :
        Succeeded(call.results[i]) =>
          LET r == call.results[i]
              estimate == r.individual_predictions[Get(r.model_used)]
          IN  /\ LowestPrice <= Price(r) /\ Price(r) <= HighestPrice
              /\ estimate > HighestPrice => Price(r) = HighestPrice
              /\ estimate < LowestPrice => Price(r) = LowestPrice

(* C1 witness: a call of predict whose selected estimate is above 10000    *)
(* and whose price is 10000.                                               *)
C1_Witness ==
    /\ call.op = "predict" /\ call.results # <<>>
    /\ Succeeded(call.results[1])
    /\ call.results[1].individual_predictions[Get(call.results[1].model_used)] > HighestPrice
    /\ Price(call.results[1]) = HighestPrice

(* A latitude or longitude that is a number, or a string spelling one,     *)
(* outside its range.                                                      *)
Outside(data, field, limit) ==
    /\ field \in DOMAIN data
    /\ data[field].t \in {"num", "numstr"}
    /\ (data[field].v < -limit \/ data[field].v > limit)
LatLonOutOfRange(data) ==
    Outside(data, "latitude", 90 * GeoDen) \/ Outside(data, "longitude", 180 * GeoDen)

(* C2: an input whose latitude is outside [-90, 90] or whose longitude is  *)
(* outside [-180, 180] never gets a price: predict returns the error       *)
(* result with predicted_price None, and POST /predict answers without a   *)
(* result, with status 400 and the validation errors when the predictor is *)
(* loaded.                                                                 *)
C2_LatLonRejected ==
    /\ call.op = "predict" /\ LatLonOutOfRange(call.args[1]) =>
         /\ IsNone(call.results[1].predicted_price)
         /\ "error" \in DOMAIN call.results[1] /\ call.results[1].error # ""
         /\ call.raised[1] = "validation"
    /\ call.op = "POST /predict" /\ LatLonOutOfRange(call.args[1]) =>
         /\ call.results = <<>>
         /\ call.status \notin {0, 200}
         /\ predictor_set =>
              /\ call.status = 400 /\ call.body = "Invalid input data"
              /\ call.validation_errors # <<>> /\ call.validation_errors[1] # <<>>

(* C2 witness: predict was called with a latitude just above 90 and        *)
(* answered with the error result.                                         *)
C2_Witness ==
    /\ call.op = "predict"
    /\ Outside(call.args[1], "latitude", 90 * GeoDen)
    /\ call.args[1]["latitude"] = Num(90 * GeoDen + 1)
    /\ IsNone(call.results[1].predicted_price)

(* C3: with the network, the three regressors and the weights loaded, the  *)
(* blended estimate is w0*neural_network + w1*random_forest +              *)
(* w2*gradient_boosting + w3*ridge, the weights as stored.                 *)
C3_EnsembleIsWeightedSum ==
    (/\ call.op \in PredictionOps /\ predictor_set
     /\ Truthy(predictor.neural_network) /\ Truthy(predictor.rf_model)
     /\ Truthy(predictor.gb_model) /\ Truthy(predictor.ridge_model)
     /\ ~IsNone(predictor.ensemble_weights)) =>
      \A i \in DOMAIN call.results :
        Succeeded(call.results[i]) =>
          LET p == call.results[i].individual_predictions
              w == Get(predictor.ensemble_weights)
          IN  /\ "ensemble" \in DOMAIN p
              /\ WDen * p["ensemble"] =
                    w[1] * p["neural_network"] + w[2] * p["random_forest"]
                      + w[3] * p["gradient_boosting"] + w[4] * p["ridge"]

(* C3 witness: a successful call with weights that do not sum to 1         *)
(* (1, 1/2, 1/4, 1/4) and a blended estimate.                              *)
C3_Witness ==
    /\ call.op = "predict" /\ predictor_set
    /\ predictor.ensemble_weights = Some(<< 4, 2, 1, 1 >>)
    /\ Succeeded(call.results[1])
    /\ "ensemble" \in DOMAIN call.results[1].individual_predictions

(* One of the three classical regressors or the weights is not loaded. *)
Degraded ==
    /\ predictor_set
    /\ \/ IsNone(predictor.rf_model) \/ IsNone(predictor.gb_model)
       \/ IsNone(predictor.ridge_model) \/ IsNone(predictor.ensemble_weights)

(* C4, as amended: when a classical regressor or the weights are absent, a *)
(* successful result has no "ensemble" estimate, names neural_network as   *)
(* the model used, and its price is the network estimate brought into      *)
(* [10, 10000] and rounded to two decimals.                                *)
C4_DegradedUsesNetwork ==
    (call.op \in PredictionOps /\ Degraded) =>
      \A i \in DOMAIN call.results :
        Succeeded(call.results[i]) =>
          /\ "ensemble" \notin DOMAIN call.results[i].individual_predictions
          /\ call.results[i].model_used = Some("neural_network")
          /\ ClampedAndRounded(call.results[i].individual_predictions["neural_network"],
                               Price(call.results[i]))

(* C4 witness: the random forest is loaded, the ridge regressor is not,    *)
(* and a call succeeded on the network alone.                              *)
C4_Witness ==
    /\ call.op = "predict" /\ Degraded
    /\ Truthy(predictor.rf_model) /\ IsNone(predictor.ridge_model)
    /\ Succeeded(call.results[1])
    /\ call.results[1].model_used = Some("neural_network")

(* C4 as stated: the price of such a result equals the network estimate.   *)
C4_PriceEqualsNetworkEstimate ==
    (call.op \in PredictionOps /\ Degraded) =>
      \A i \in DOMAIN call.results :
        Succeeded(call.results[i]) =>
          /\ "ensemble" \notin DOMAIN call.results[i].individual_predictions
          /\ call.results[i].model_used = Some("neural_network")
          /\ Price(call.results[i]) = call.results[i].individual_predictions["neural_network"]

(* The predictor's own validation rejects the record. *)
Invalid(data) == ~_validate_input(data).ok

(* C5 as stated: a batch with an invalid item gets as many results as it   *)
(* has items; the results of the invalid items have predicted_price None   *)
(* and every other item has the outcome it has when predicted alone.       *)
C5_BatchFailuresIsolated ==
    (/\ call.op \in {"predict_batch", "POST /predict/batch"} /\ predictor_set
     /\ \E k \in DOMAIN call.args : Invalid(call.args[k])) =>
      /\ Len(call.results) = Len(call.args)
      /\ \A i \in DOMAIN call.results :
           IF Invalid(call.args[i]) THEN IsNone(call.results[i].predicted_price)
           ELSE call.results[i].predicted_price
                  = predict(predictor, call.args[i]).result.predicted_price

(* The record r without its key k *)
Except(r, k) == [f \in (DOMAIN r) \ {k} |-> r[f]]

(* C6: predict_batch returns one result per input, in the order of the     *)
(* inputs: result i is the result of predict on input i with batch_index   *)
(* i (counted from 0), whether the item succeeded or failed.               *)
C6_BatchOrderAndIndex ==
    call.op = "predict_batch" =>
      /\ Len(call.results) = Len(call.args)
      /\ \A i \in DOMAIN call.args :
           /\ "batch_index" \in DOMAIN call.results[i]
           /\ call.results[i]["batch_index"] = i - 1
           /\ Except(call.results[i], "batch_index") = predict(predictor, call.args[i]).result

(* C6 witness: a batch of two whose first item failed and whose second     *)
(* succeeded, each carrying its index.                                     *)
C6_Witness ==
    /\ call.op = "predict_batch" /\ Len(call.args) = 2
    /\ Len(call.results) = 2
    /\ ~Succeeded(call.results[1]) /\ call.results[1]["batch_index"] = 0
    /\ Succeeded(call.results[2]) /\ call.results[2]["batch_index"] = 1

(* C7: predict always returns a dictionary; when a step raised, in         *)
(* validation, feature engineering, preprocessing or a model invocation,   *)
(* it is the error result: predicted_price None, model_used None,          *)
(* confidence_level "error" and the reason in error.                       *)
C7_StructuredError ==
    call.op \in PredictionOps =>
      /\ Len(call.raised) = Len(call.results)
      /\ \A i \in DOMAIN call.results :
           /\ "predicted_price" \in DOMAIN call.results[i]
           /\ call.raised[i] = "" => Succeeded(call.results[i])
           /\ call.raised[i] # "" =>
                /\ IsNone(call.results[i].predicted_price)
                /\ IsNone(call.results[i].model_used)
                /\ call.results[i].confidence_level = "error"
                /\ "error" \in DOMAIN call.results[i]
                /\ call.results[i].error # ""

(* C7 witness: a model invocation raised after a successful preprocessing  *)
(* and predict returned the error result.                                  *)
C7_Witness ==
    /\ call.op = "predict"
    /\ call.raised = << "model invocation" >>
    /\ IsNone(call.results[1].predicted_price)
    /\ call.results[1].confidence_level = "error"

(* C8: the final estimate is the blended one when it was computed, the     *)
(* network's otherwise, and model_used names it; without any estimate the  *)
(* call fails with "No model predictions available" and no price.          *)
C8_SelectionPolicy ==
    (call.op \in PredictionOps /\ predictor_set) =>
      /\ \A i \in DOMAIN call.results :
           Succeeded(call.results[i]) =>
             LET p == call.results[i].individual_predictions
             IN  IF "ensemble" \in DOMAIN p
                 THEN /\ call.results[i].model_used = Some("ensemble")
                      /\ ClampedAndRounded(p["ensemble"], Price(call.results[i]))
                 ELSE /\ "neural_network" \in DOMAIN p
                      /\ call.results[i].model_used = Some("neural_network")
                      /\ ClampedAndRounded(p["neural_network"], Price(call.results[i]))
      /\ LET none == PredictModels(predictor, [events |-> <<>>], NoPredictions)
         IN  /\ IsNone(none.result.predicted_price)
             /\ none.result.error = "No model predictions available"

(* C8 witness: the blended estimate and the network estimate round to      *)
(* different prices, and the price is the blended one.                     *)
C8_Witness ==
    /\ call.op = "predict" /\ Succeeded(call.results[1])
    /\ call.results[1].model_used = Some("ensemble")
    /\ ClampedAndRounded(call.results[1].individual_predictions["ensemble"],
                         Price(call.results[1]))
    /\ ~ClampedAndRounded(call.results[1].individual_predictions["neural_network"],
                          Price(call.results[1]))

(* A required field is absent or null, or a count is out of its range. *)
Below(data, field, limit) ==
    field \in DOMAIN data /\ data[field].t = "num" /\ data[field].v < limit
Above(data, field, limit) ==
    field \in DOMAIN data /\ data[field].t = "num" /\ data[field].v > limit
MissesRequiredOrRange(data) ==
    \/ \E f \in Range(required_fields) : f \notin DOMAIN data \/ data[f].t = "null"
    \/ Below(data, "minimum_nights", 0)
    \/ Below(data, "availability_365", 0)
    \/ Above(data, "availability_365", 365 * HalfDen)
    \/ Below(data, "number_of_reviews", 0)
    \/ Below(data, "calculated_host_listings_count", 0)

(* C9: an input that misses a required field or violates a numeric range   *)
(* is rejected by the validation: the call ends there, without feature     *)
(* engineering, preprocessing (no warning of it) or model invocation, and  *)
(* without a price.                                                        *)
C9_RejectedBeforeComputation ==
    call.op \in PredictionOps =>
      \A i \in DOMAIN call.results :
        MissesRequiredOrRange(call.args[i]) =>
          /\ call.stages[i] = << "validate" >>
          /\ call.raised[i] = "validation"
          /\ call.events[i] = <<>>
          /\ IsNone(call.results[i].predicted_price)

(* C9 witness: predict was called with availability_365 = 365.5 and        *)
(* stopped in the validation.                                              *)
C9_Witness ==
    /\ call.op = "predict"
    /\ Above(call.args[1], "availability_365", 365 * HalfDen)
    /\ call.args[1]["availability_365"].v < 366 * HalfDen
    /\ call.stages = << << "validate" >> >>
    /\ IsNone(call.results[1].predicted_price)

(* C10 as stated: every field of the loaded predictor, the label encoders  *)
(* included, keeps the value the constructor gave it.                      *)
C10_BundleNeverMutated ==
    predictor_set => predictor = _load_models(NewPredictor).self
(***************************************************************************)
(* C11.  Concurrent calls of predict on the one shared predictor are safe  *)
(* without a lock: in every interleaving a finished call has the result it *)
(* has when it runs alone on the predictor as loaded, and no call has read *)
(* the encoder set while another call was part-way through filling it.     *)
(***************************************************************************)
RunAlone(input_data) == predict(_load_models(NewPredictor).self, input_data).result

C11_SameResultAsAlone ==
    \A t \in Threads :
        threads[t].pc = "done" => Get(threads[t].result) = RunAlone(threads[t].input_data)

C11_ConcurrentCallsSafe ==
    \A t \in Threads :
        /\ threads[t].pc = "done" =>
               Get(threads[t].result) = RunAlone(threads[t].input_data)
        /\ ~threads[t].observed_partial

(* Two calls are in the loop over the categorical features at once. *)
C11_TwoCallsInterleaved ==
    \A t \in Threads : threads[t].pc \in {"check", "store"} /\ threads[t].i >= 1

(***************************************************************************)
(* C12.  Whenever a successful prediction degraded a feature (a schema     *)
(* feature missing and filled with a default, an unseen category, an       *)
(* absent or failing scaler), the warnings list of its result records it:  *)
(* the list is not empty.                                                  *)
(***************************************************************************)
DegradedFeatureEvents == {"missing_feature", "unseen_category", "no_scaler", "scaling_error"}

C12_WarningsRecordDegradedFeature ==
    call.op \in PredictionOps =>
      \A i \in DOMAIN call.results :
        (/\ Succeeded(call.results[i])
         /\ \E e \in Range(call.events[i]) : e \in DegradedFeatureEvents)
           => call.results[i].warnings # <<>>

(* The warnings list of every successful result is empty, whatever the     *)
(* preprocessing logged.                                                   *)
C12_WarningsAlwaysEmpty ==
    call.op \in PredictionOps =>
      \A i \in DOMAIN call.results :
        Succeeded(call.results[i]) => call.results[i].warnings = <<>>

(* A successful predict that met an unseen category. *)
C12_DegradedSuccess ==
    /\ call.op = "predict" /\ call.results # <<>>
    /\ Succeeded(call.results[1])
    /\ "unseen_category" \in Range(call.events[1])

(***************************************************************************)
(* C13.  A successful result records whether its price was clamped: it has *)
(* a bounds-clamped flag, which is true exactly when the selected estimate *)
(* lay outside [10, 10000].                                                *)
(***************************************************************************)
SelectedEstimate(r) == r.individual_predictions[Get(r.model_used)]
EstimateOutsideBounds(r) ==
    SelectedEstimate(r) < LowestPrice \/ SelectedEstimate(r) > HighestPrice

C13_ClampingRecorded ==
    call.op \in PredictionOps =>
      \A i \in DOMAIN call.results :
        Succeeded(call.results[i]) =>
          /\ "bounds_clamped" \in DOMAIN call.results[i]
          /\ call.results[i]["bounds_clamped"] = EstimateOutsideBounds(call.results[i])

(* The keys of a successful result are those of the dictionary predict     *)
(* builds: none of them is a flag of the clamping.                         *)
C13_ResultKeys ==
    call.op \in PredictionOps =>
      \A i \in DOMAIN call.results :
        Succeeded(call.results[i]) =>
          DOMAIN call.results[i] \subseteq
            { "predicted_price", "model_used", "model_version", "individual_predictions",
              "confidence_level", "features_used", "input_validation", "warnings",
              "prediction_std", "prediction_range", "batch_index" }

(* A successful predict whose selected estimate was above 10000. *)
C13_ClampedResult ==
    /\ call.op = "predict" /\ call.results # <<>>
    /\ Succeeded(call.results[1])
    /\ SelectedEstimate(call.results[1]) > HighestPrice
    /\ "bounds_clamped" \notin DOMAIN call.results[1]

(***************************************************************************)
(* C14.  For the example listing (Manhattan, minimum_nights 2,             *)
(* availability_365 180, number_of_reviews 50,                             *)
(* calculated_host_listings_count 3, month 7) the engineered features are  *)
(* is_super_host = 0, season = "Summer", is_peak_season = 1 and            *)
(* availability_category = "Seasonal"; host_activity_level is "Casual",    *)
(* the bucket of the counts 2 and 3.                                       *)
(***************************************************************************)
ExampleFields ==
    { "neighbourhood_group", "minimum_nights", "availability_365", "number_of_reviews",
      "calculated_host_listings_count", "month" }

ExampleListing(data) ==
    \A f \in ExampleFields : f \in DOMAIN data /\ data[f] = example_data[f]

(* The frame _engineer_features returns within predict(data) *)
Engineered(data) == _engineer_features(_validate_input(data).data).df

(* Item i of the last call passed the feature engineering. *)
WasEngineered(i) == "preprocess" \in Range(call.stages[i])

ExampleFeatures(df, activity) ==
    /\ df["is_super_host"] = Bool(FALSE)
    /\ df["host_activity_level"] = Txt(activity)
    /\ df["season"] = Txt("Summer")
    /\ df["is_peak_season"] = Bool(TRUE)
    /\ df["availability_category"] = Txt("Seasonal")

C14_ExampleFeatures ==
    call.op \in PredictionOps =>
      \A i \in DOMAIN call.results :
        (ExampleListing(call.args[i]) /\ WasEngineered(i))
           => ExampleFeatures(Engineered(call.args[i]), "Casual")

(* C14 as stated: the same with host_activity_level = "Active". *)
C14_ExampleFeaturesActive ==
    call.op \in PredictionOps =>
      \A i \in DOMAIN call.results :
        (ExampleListing(call.args[i]) /\ WasEngineered(i))
           => ExampleFeatures(Engineered(call.args[i]), "Active")

(* C14 witness: predict of the example listing went through the feature    *)
(* engineering and returned a price.                                       *)
C14_Witness ==
    /\ call.op = "predict" /\ call.results # <<>>
    /\ call.args[1] = example_data
    /\ WasEngineered(1)
    /\ Succeeded(call.results[1])

(***************************************************************************)
(* C15.  distance_to_manhattan is the Euclidean distance in degrees from   *)
(* the reference point (40.7589, -73.9851): in units of 1e-4 degree it is  *)
(* the root of the squared differences, and for the example listing at     *)
(* (40.7736, -73.9566), whose squared distance is 147^2 + 285^2, it is     *)
(* 320 units, that is about 0.0321 degree.                                 *)
(***************************************************************************)
NearReference(data) ==
    /\ Abs(data["latitude"].v - 407589) <= 3 * GeoDen
    /\ Abs(data["longitude"].v - (-739851)) <= 3 * GeoDen

SquaredDistance(data) ==
    (data["latitude"].v - 407589) * (data["latitude"].v - 407589)
      + (data["longitude"].v - (-739851)) * (data["longitude"].v - (-739851))

AtExampleLocation(data) ==
    /\ {"latitude", "longitude"} \subseteq DOMAIN data
    /\ data["latitude"] = Num(407736) /\ data["longitude"] = Num(-739566)

C15_EuclideanDistance ==
    call.op \in PredictionOps =>
      \A i \in DOMAIN call.results :
        WasEngineered(i) =>
          LET df == Engineered(call.args[i])
              d == df["distance_to_manhattan"].v
          IN  /\ NearReference(df) =>
                   d * d <= SquaredDistance(df) /\ SquaredDistance(df) < (d + 1) * (d + 1)
              /\ AtExampleLocation(call.args[i]) =>
                   /\ SquaredDistance(df) = 147 * 147 + 285 * 285
                   /\ d = 320

(* C15 as stated: the distance of the example listing is about 0.0184. *)
C15_ExampleDistance184 ==
    call.op \in PredictionOps =>
      \A i \in DOMAIN call.results :
        (WasEngineered(i) /\ AtExampleLocation(call.args[i])) =>
          Abs(Engineered(call.args[i])["distance_to_manhattan"].v - 184) <= 1

(* C15 witness: a call on a listing at the example location that passed    *)
(* the feature engineering.                                                *)
C15_Witness ==
    /\ call.op = "predict" /\ call.results # <<>>
    /\ AtExampleLocation(call.args[1])
    /\ WasEngineered(1)
    /\ NearReference(Engineered(call.args[1]))

(***************************************************************************)
(* C16.  Startup requires the primary model file and the schema/metadata   *)
(* file: when either is absent the loading fails, no predictor is          *)
(* constructed, and the service answers a prediction request with 503.     *)
(***************************************************************************)
HttpOps == {"POST /predict", "POST /predict/batch"}

C16_MissingRequiredIsFatal ==
    (phase # "start"
       /\ (artifacts.nn.state = "absent" \/ artifacts.package_state = "absent"))
      => /\ ~predictor_set
         /\ call.op \in HttpOps => call.status = 503

(* The part that holds: without the model file there is no predictor and   *)
(* the service answers 503.                                                *)
C16_MissingModelIsFatal ==
    (phase # "start" /\ artifacts.nn.state = "absent")
      => /\ ~predictor_set
         /\ call.op \in HttpOps => call.status = 503

(* A predictor constructed without the preprocessing package returned a    *)
(* price over HTTP.                                                        *)
C16_FallbackServes ==
    /\ artifacts.package_state = "absent"
    /\ predictor_set
    /\ call.op = "POST /predict" /\ call.status = 200

(***************************************************************************)
(* C17.  Optional artifacts that are missing or cannot be loaded never     *)
(* fail the startup: with a loadable network file and a preprocessing      *)
(* package that is loadable or absent, the predictor is constructed        *)
(* whatever the state of the three regressor files and of the weights, and *)
(* is_ensemble is true exactly when all three regressors and the blend     *)
(* weights were loaded.                                                    *)
(***************************************************************************)
RequiredLoadable == artifacts.nn.state = "ok" /\ artifacts.package_state # "corrupt"

AllOptionalLoaded ==
    /\ artifacts.rf.state = "ok" /\ artifacts.gb.state = "ok"
    /\ artifacts.ridge.state = "ok"
    /\ artifacts.package_state = "ok"
    /\ ~IsNone(artifacts.package.ensemble_weights)

C17_OptionalNeverFatal ==
    (phase # "start" /\ RequiredLoadable) =>
        /\ predictor_set
        /\ predictor.is_ensemble <=> AllOptionalLoaded
        /\ predictor.is_ensemble <=>
              (/\ Truthy(predictor.rf_model) /\ Truthy(predictor.gb_model)
               /\ Truthy(predictor.ridge_model) /\ ~IsNone(predictor.ensemble_weights))

(* C17 witness: the gradient boosting file cannot be loaded, the           *)
(* predictor is constructed in single-model mode and served a price.       *)
C17_Witness ==
    /\ RequiredLoadable /\ artifacts.gb.state = "corrupt"
    /\ predictor_set /\ ~predictor.is_ensemble
    /\ call.op = "predict" /\ Succeeded(call.results[1])

(***************************************************************************)
(* C18.  POST /predict maps outcomes to status classes: an unloaded        *)
(* predictor gives 503, every validation failure of the input, whether     *)
(* found by validate_prediction_input or by the predictor's own            *)
(* _validate_input, gives a 4xx status, and a computed price gives 200.    *)
(***************************************************************************)
RejectedByHttpValidator == call.validation_errors # <<>>
RejectedByPredictor == call.raised # <<>> /\ call.raised[1] = "validation"

C18_StatusClasses ==
    call.op = "POST /predict" =>
        /\ ~predictor_set => call.status = 503
        /\ (predictor_set /\ (RejectedByHttpValidator \/ RejectedByPredictor))
              => call.status \in 400..499
        /\ (call.results # <<>> /\ Succeeded(call.results[1])) => call.status = 200

(* The parts that hold: 503 without a predictor, 400 on an error of        *)
(* validate_prediction_input, 200 with a price.                            *)
C18_StatusClassesOfHttpValidation ==
    call.op = "POST /predict" =>
        /\ ~predictor_set => call.status = 503
        /\ (predictor_set /\ RejectedByHttpValidator) => call.status = 400
        /\ (call.results # <<>> /\ Succeeded(call.results[1])) => call.status = 200

(* An input the HTTP validator admitted and the predictor's validation     *)
(* rejected was answered with 500.                                         *)
C18_PredictorRejectionIs500 ==
    /\ call.op = "POST /predict" /\ predictor_set
    /\ RejectedByPredictor
    /\ call.status = 500

C20_ConfidenceTier ==
    call.op \in PredictionOps =>
      \A i \in DOMAIN call.results :
        LET r == call.results[i]
        IN  /\ r.confidence_level = "high"
                 <=> (Succeeded(r) /\ r.model_used = Some("ensemble"))
            /\ r.confidence_level = "medium"
                 <=> (Succeeded(r) /\ r.model_used = Some("neural_network"))
            /\ r.confidence_level = "error" <=> IsNone(r.predicted_price)
            /\ r.confidence_level = "high" =>
                   Price(r) = Round2(ApplyBounds(r.individual_predictions["ensemble"]))

(* C20 witness: a batch with a blended result of high confidence and an    *)
(* error result.                                                           *)
C20_Witness ==
    /\ call.op = "predict_batch" /\ Len(call.results) = 2
    /\ call.results[1].confidence_level = "high"
    /\ call.results[1].model_used = Some("ensemble")
    /\ call.results[2].confidence_level = "error"
    /\ IsNone(call.results[2].predicted_price)

(* A successful single-model result of medium confidence *)
C20_MediumReached ==
    /\ call.op = "predict" /\ call.results # <<>>
    /\ Succeeded(call.results[1])
    /\ call.results[1].confidence_level = "medium"
    /\ call.results[1].model_used = Some("neural_network")

(***************************************************************************)
(* C21.  prediction_std and prediction_range are reported exactly when at  *)
(* least two individual per-model estimates exist (network and classical   *)
(* regressors, the blend not counted), and prediction_range.min and .max   *)
(* are the minimum and the maximum of those individual estimates, to two   *)
(* decimals.                                                               *)
(***************************************************************************)
IndividualModels(r) == (DOMAIN r.individual_predictions) \ {"ensemble"}
IndividualEstimates(r) == { r.individual_predictions[m] : m \in IndividualModels(r) }
AllEstimates(r) == { r.individual_predictions[m] : m \in DOMAIN r.individual_predictions }
MetricsReported(r) == {"prediction_std", "prediction_range"} \subseteq DOMAIN r

C21_RangeOfIndividualEstimates ==
    call.op \in PredictionOps =>
      \A i \in DOMAIN call.results :
        Succeeded(call.results[i]) =>
          LET r == call.results[i]
          IN  /\ MetricsReported(r) <=> Cardinality(IndividualModels(r)) >= 2
              /\ MetricsReported(r) =>
                   /\ r.prediction_range.min = Round2(SetMin(IndividualEstimates(r)))
                   /\ r.prediction_range.max = Round2(SetMax(IndividualEstimates(r)))

(* What holds: the metrics are reported exactly with two or more           *)
(* individual estimates, and the range is taken over all entries of        *)
(* individual_predictions, the blended one included.                       *)
C21_RangeOfAllEstimates ==
    call.op \in PredictionOps =>
      \A i \in DOMAIN call.results :
        Succeeded(call.results[i]) =>
          LET r == call.results[i]
          IN  /\ MetricsReported(r) <=> Cardinality(IndividualModels(r)) >= 2
              /\ MetricsReported(r) =>
                   /\ r.prediction_range.min = Round2(SetMin(AllEstimates(r)))
                   /\ r.prediction_range.max = Round2(SetMax(AllEstimates(r)))

(* A result whose reported maximum is the blended estimate, above every    *)
(* individual one.                                                         *)
C21_BlendIsTheMaximum ==
    /\ call.op = "predict" /\ call.results # <<>>
    /\ Succeeded(call.results[1]) /\ MetricsReported(call.results[1])
    /\ call.results[1].individual_predictions["ensemble"]
          > SetMax(IndividualEstimates(call.results[1]))

(***************************************************************************)
(* C22.  POST /predict/batch accepts a list of 1 to 100 records: an empty  *)
(* list and a list of more than 100 items are answered with a 4xx status   *)
(* and no prediction is computed, and every list of 1..100 records that    *)
(* pass validate_prediction_input is processed: the answer is 200 with one *)
(* result per item.                                                        *)
(***************************************************************************)
AllItemsValid(items) ==
    \A i \in DOMAIN items : validate_prediction_input(items[i]) = <<>>

C22_BatchSizeLimits ==
    (call.op = "POST /predict/batch" /\ predictor_set) =>
        /\ (Len(call.args) = 0 \/ Len(call.args) > 100) =>
              /\ call.status \in 400..499
              /\ call.results = <<>> /\ call.stages = <<>>
        /\ (Len(call.args) \in 1..100 /\ AllItemsValid(call.args)) =>
              /\ call.status = 200
              /\ Len(call.results) = Len(call.args)

(* C22 witness: a list of 100 valid records was processed. *)
C22_Witness ==
    /\ call.op = "POST /predict/batch" /\ predictor_set
    /\ Len(call.args) = 100 /\ AllItemsValid(call.args)
    /\ call.status = 200 /\ Len(call.results) = 100

(* A list of 101 records was rejected as too large. *)
C22_TooLargeRejected ==
    /\ call.op = "POST /predict/batch" /\ predictor_set
    /\ Len(call.args) = 101
    /\ call.status = 400 /\ call.body = "Batch size too large"

(***************************************************************************)
(* C23.  The preprocessed vector of a call has exactly as many entries as  *)
(* the feature schema of the predictor, in the order of the schema, and    *)
(* every schema feature that is no column of the engineered frame is       *)
(* filled with 0 when numeric or binary and with "Unknown" when            *)
(* categorical.                                                            *)
(***************************************************************************)
MissingFromFrame(self, df) == { f \in Range(self.all_features) : f \notin DOMAIN df }

VectorFollowsSchema(self, df, pre) ==
    LET full == WithDefaults(self, df)
        encoded == EncodeColumns(self, full)
    IN  /\ \A f \in MissingFromFrame(self, df) :
             full[f] = IF f \in Range(self.categorical_features)
                       THEN Txt("Unknown") ELSE Num(0)
        /\ pre.ok =>
             /\ Len(pre.X) = Len(self.all_features)
             /\ Scaling(self.scaler, SelectRow(self, encoded)) = "raw" =>
                  \A k \in 1..Len(self.all_features) :
                     pre.X[k] = encoded[self.all_features[k]].v

C23_VectorFollowsSchema ==
    call.op \in PredictionOps =>
      \A i \in DOMAIN call.engineered :
        ~IsNone(call.engineered[i]) =>
          VectorFollowsSchema(predictor, Get(call.engineered[i]),
                              _preprocess_features(predictor, Get(call.engineered[i])))

(* C23 witness: a successful call on a predictor whose schema has a        *)
(* categorical and a numeric feature that the engineered frame lacks.      *)
C23_Witness ==
    /\ call.op = "predict" /\ call.results # <<>>
    /\ ~IsNone(call.engineered[1]) /\ Succeeded(call.results[1])
    /\ \E f \in MissingFromFrame(predictor, Get(call.engineered[1])) :
          f \in Range(predictor.categorical_features)
    /\ \E f \in MissingFromFrame(predictor, Get(call.engineered[1])) :
          f \notin Range(predictor.categorical_features)

(***************************************************************************)
(* C24.  Preprocessing never propagates a failure: whatever the frame, an  *)
(* unseen category, a missing encoder, an absent or a failing scaler       *)
(* included, _preprocess_features returns a vector and no call ends with   *)
(* an exception raised by the preprocessing.                               *)
(***************************************************************************)
C24_PreprocessingNeverRaises ==
    call.op \in PredictionOps =>
      \A i \in DOMAIN call.raised : call.raised[i] # "preprocessing"

(* The schema columns of item i that are not categorical and hold a string *)
TextInNumericColumn(self, full) ==
    { f \in Range(self.all_features) \ Range(self.categorical_features) :
         full[f].t = "text" }

(* What holds: the preprocessing raises only in astype(float), on a string *)
(* in a column that is not categorical.                                    *)
C24_RaisesOnlyInAstype ==
    call.op \in PredictionOps =>
      \A i \in DOMAIN call.raised :
        "engineer" \in Range(call.stages[i]) /\ call.raised[i] # "feature engineering" =>
          (call.raised[i] = "preprocessing"
             <=> TextInNumericColumn(predictor,
                    WithDefaults(predictor, Engineered(call.args[i]))) # {})

(* A call that the preprocessing ended with an exception. *)
C24_PreprocessingRaised ==
    /\ call.op = "predict" /\ call.results # <<>>
    /\ call.raised[1] = "preprocessing"
    /\ IsNone(call.results[1].predicted_price)

(***************************************************************************)
(* C25.  For every valid calculated_host_listings_count the engineered     *)
(* host_activity_level is the bucket of the count: New for 0 to 1, Casual  *)
(* for 2 to 3, Active for 4 to 10, Professional above 10, a count that is  *)
(* no whole number within one of these ranges included.                    *)
(***************************************************************************)
InBucket(h, low, high) == low * HalfDen <= h /\ h <= high * HalfDen

BucketOfCount(h, level) ==
    /\ InBucket(h, 0, 1) => level = Txt("New")
    /\ InBucket(h, 2, 3) => level = Txt("Casual")
    /\ InBucket(h, 4, 10) => level = Txt("Active")
    /\ h > 10 * HalfDen => level = Txt("Professional")

C25_HostActivityBuckets ==
    call.op \in PredictionOps =>
      \A i \in DOMAIN call.engineered :
        ~IsNone(call.engineered[i]) =>
          BucketOfCount(Get(call.engineered[i])["calculated_host_listings_count"].v,
                        Get(call.engineered[i])["host_activity_level"])

(* What holds: the buckets for the whole numbers, and Active for every     *)
(* count up to 10 that is no whole number.                                 *)
C25_BucketsOfWholeCounts ==
    call.op \in PredictionOps =>
      \A i \in DOMAIN call.engineered :
        ~IsNone(call.engineered[i]) =>
          LET h == Get(call.engineered[i])["calculated_host_listings_count"].v
              level == Get(call.engineered[i])["host_activity_level"]
          IN  /\ h % HalfDen = 0 => BucketOfCount(h, level)
              /\ (h % HalfDen # 0 /\ h <= 10 * HalfDen) => level = Txt("Active")

(* A listing of a host with 2.5 listings was engineered as Active. *)
C25_FractionalCountIsActive ==
    /\ call.op = "predict" /\ call.results # <<>>
    /\ ~IsNone(call.engineered[1])
    /\ Get(call.engineered[1])["calculated_host_listings_count"] = Num(5)
    /\ Get(call.engineered[1])["host_activity_level"] = Txt("Active")

(***************************************************************************)
(* app.py: the ETL script.  main calls the six steps in order; every step  *)
(* catches its own exceptions and returns None / False instead.  What the  *)
(* files and the database do is the environment's choice.                  *)
(***************************************************************************)
(* A row of fact_listing_daily.csv is given by its key columns that are    *)
(* null.                                                                   *)
CsvFiles ==
    { [fact_listing_daily |-> rows] :
        rows \in { << {} >>, << {}, {"host_id"} >>, << {"date_id"}, {}, {"listing_id"} >> } }

InitETL ==
    /\ artifacts = FullDirectory
    /\ phase = "start"
    /\ predictor_set = FALSE
    /\ predictor = NewPredictor
    /\ call = NoCall
    /\ threads = [t \in Threads |-> IdleThread]
    /\ \E files \in CsvFiles :
         etl = [NoEtl EXCEPT !.pc = "load_csv_files", !.files = files]

(* main, unconditional variant: the run goes on whatever the step returned. *)
MainIgnoresFailure(run, step, ok, next) ==
    [run EXCEPT !.steps = Append(@, [step |-> step, ok |-> ok]),
                !.pc = next,
                !.output = IF next = "exit"
                           THEN Append(@, "ETL PROCESS COMPLETED SUCCESSFULLY!")
                           ELSE @]

(* main: what follows the call of a step whose result main tests: on a     *)
(* falsy result the message of the step and return, otherwise the next     *)
(* step, and after the last one the success message.                       *)
main(run, step, ok, next) ==
    [run EXCEPT !.steps = Append(@, [step |-> step, ok |-> ok]),
                !.pc = IF ok THEN next ELSE "exit",
                !.output =
                    IF ~ok
                    THEN Append(@, CASE step = "load_csv_files" ->
                                          "Failed to load CSV files. Exiting..."
                                     [] step = "create_connection" ->
                                          "Failed to connect to database. Exiting..."
                                     [] step = "create_tables" ->
                                          "Failed to create tables. Exiting..."
                                     [] step = "load_data_to_database" ->
                                          "Failed to load data to database. Exiting..."
                                     [] OTHER ->
                                          "Failed to verify data. Please check manually...")
                    ELSE IF next = "exit"
                    THEN Append(@, "ETL PROCESS COMPLETED SUCCESSFULLY!")
                    ELSE @]

(* Step 1.  Any read_csv that raises makes the function return None.       *)
load_csv_files ==
    /\ etl.pc = "load_csv_files"
    /\ \E ok \in BOOLEAN :
         etl' = main([etl EXCEPT !.dataframes = IF ok THEN Some(etl.files) ELSE None],
                     "load_csv_files", ok, "create_connection")
    /\ UNCHANGED << artifacts, phase, predictor_set, predictor, call, threads >>

(* Step 2.  create_engine returns the engine or raises.                    *)
create_connection ==
    /\ etl.pc = "create_connection"
    /\ \E ok \in BOOLEAN :
         etl' = main([etl EXCEPT !.engine = IF ok THEN Some("engine") ELSE None],
                     "create_connection", ok, "create_tables")
    /\ UNCHANGED << artifacts, phase, predictor_set, predictor, call, threads >>

(* Step 3.  The drop / create script runs in one transaction, committed    *)
(* only when every statement succeeded.                                    *)
create_tables ==
    /\ etl.pc = "create_tables"
    /\ \E ok \in BOOLEAN :
         etl' = main([etl EXCEPT !.created = IF ok THEN TRUE ELSE @,
                                 !.written = IF ok THEN <<>> ELSE @,
                                 !.constraints = IF ok THEN {} ELSE @],
                     "create_tables", ok, "load_data_to_database")
    /\ UNCHANGED << artifacts, phase, predictor_set, predictor, call, threads >>

(* Step 4.  validate_foreign_keys drops the fact rows with a null          *)
(* listing, host, location or room type key; then one to_sql per table,    *)
(* the dimensions in tables_order and the fact table last.  The first n    *)
(* calls succeed; a call that raises ends the function with False.         *)
load_data_to_database ==
    /\ etl.pc = "load_data_to_database"
    /\ LET fact_df == SelectSeq(Get(etl.dataframes).fact_listing_daily,
                          LAMBDA row : row \cap {"listing_id", "host_id",
                                                 "location_id", "room_type_id"} = {})
           tables_order == << "dim_location", "dim_host", "dim_room_type",
                              "dim_listing", "dim_date" >>
           to_sql == [i \in 1..6 |->
                        IF i <= 5 THEN [table |-> tables_order[i], rows |-> "all"]
                        ELSE [table |-> "fact_listing_daily", rows |-> fact_df]]
       IN  \E n \in 0..6 :
             etl' = main([etl EXCEPT !.written = @ \o SubSeq(to_sql, 1, n)],
                         "load_data_to_database", n = 6, "add_foreign_key_constraints")
    /\ UNCHANGED << artifacts, phase, predictor_set, predictor, call, threads >>

(* Step 5.  One ALTER TABLE per constraint, each in its own try: the ones  *)
(* that fail are skipped.  main does not test the result.                  *)
add_foreign_key_constraints ==
    /\ etl.pc = "add_foreign_key_constraints"
    /\ LET constraints == { "fk_listing", "fk_host", "fk_location",
                            "fk_room_type", "fk_date" }
       IN  \E added \in SUBSET constraints :
             etl' = [etl EXCEPT !.constraints = @ \cup added,
                                !.steps = Append(@, [step |-> "add_foreign_key_constraints",
                                                     ok |-> added = constraints]),
                                !.pc = "verify_data"]
    /\ UNCHANGED << artifacts, phase, predictor_set, predictor, call, threads >>

(* Step 6.  The counts and the sample query; main prints the success       *)
(* message after a true result.                                            *)
verify_data ==
    /\ etl.pc = "verify_data"
    /\ \E ok \in BOOLEAN :
         etl' = main(etl, "verify_data", ok, "exit")
    /\ UNCHANGED << artifacts, phase, predictor_set, predictor, call, threads >>

NextETL ==
    \/ load_csv_files
    \/ create_connection
    \/ create_tables
    \/ load_data_to_database
    \/ add_foreign_key_constraints
    \/ verify_data

SpecETL == InitETL /\ [][NextETL]_vars

(***************************************************************************)
(* C26.  The ETL run is the linear sequence load CSVs, connect, create     *)
(* tables, load the dimensions, load the fact table, add the constraints,  *)
(* verify.  A failing CSV load, connection, table creation or data load    *)
(* is the last step of the run, and nothing written before is taken back;  *)
(* the fact table is written only after the five dimension tables; a       *)
(* constraint that cannot be added does not keep verification from         *)
(* running; the success message is printed only after verification         *)
(* succeeded.                                                              *)
(***************************************************************************)
EtlSteps ==
    << "load_csv_files", "create_connection", "create_tables",
       "load_data_to_database", "add_foreign_key_constraints", "verify_data" >>

EtlLoadOrder ==
    << "dim_location", "dim_host", "dim_room_type", "dim_listing", "dim_date",
       "fact_listing_daily" >>

EtlSuccessPrinted ==
    \E i \in DOMAIN etl.output : etl.output[i] = "ETL PROCESS COMPLETED SUCCESSFULLY!"

EtlRunIsLinear ==
    /\ Len(etl.steps) <= Len(EtlSteps)
    /\ \A i \in DOMAIN etl.steps : etl.steps[i].step = EtlSteps[i]
    /\ etl.pc \notin {"exit", "idle"} => etl.pc = EtlSteps[Len(etl.steps) + 1]
    /\ \A i \in DOMAIN etl.steps :
         (i <= 4 /\ ~etl.steps[i].ok) => (i = Len(etl.steps) /\ etl.pc = "exit")
    /\ Len(etl.written) <= Len(EtlLoadOrder)
    /\ \A i \in DOMAIN etl.written : etl.written[i].table = EtlLoadOrder[i]
    /\ etl.written # <<>> => Len(etl.steps) >= 4
    /\ (etl.pc = "exit" /\ Len(etl.steps) >= 5) => Len(etl.steps) = 6
    /\ EtlSuccessPrinted => (Len(etl.steps) = 6 /\ etl.steps[6].ok)

EtlKeepsWhatWasWritten ==
    /\ Len(etl.written) <= Len(etl'.written)
    /\ SubSeq(etl'.written, 1, Len(etl.written)) = etl.written
    /\ etl.created => etl'.created
    /\ etl.constraints \subseteq etl'.constraints

C26_LinearEtlRun == []EtlRunIsLinear /\ [][EtlKeepsWhatWasWritten]_vars

(* A finished run in which the data load stopped at the fact table: the    *)
(* five dimension tables stay written and no later step ran.               *)
C26_Witness ==
    /\ etl.pc = "exit"
    /\ Len(etl.steps) = 4 /\ ~etl.steps[4].ok
    /\ Len(etl.written) = 5

(* A finished run in which a constraint could not be added, verification   *)
(* ran and succeeded, and the success message was printed.                 *)
C26_SuccessWithoutConstraint ==
    /\ etl.pc = "exit"
    /\ Len(etl.steps) = 6 /\ ~etl.steps[5].ok /\ etl.steps[6].ok
    /\ EtlSuccessPrinted

(***************************************************************************)
(* C27.  predict is history-independent: whatever calls came before, the   *)
(* result of predict for an input is the result the predictor as loaded    *)
(* gives for it, also when an earlier call has stored a fallback encoder   *)
(* for a categorical feature.                                              *)
(***************************************************************************)
C27_HistoryIndependent ==
    (call.op = "predict" /\ call.results # <<>>) =>
        call.results[1] = RunAlone(call.args[1])

(* Fallback encoders fitted by an earlier call on another value than the   *)
(* one of the last call.                                                   *)
EncodersOfEarlierCalls ==
    { f \in (DOMAIN predictor.label_encoders) \ LoadedEncoders :
        /\ f \in DOMAIN Get(call.engineered[1])
        /\ predictor.label_encoders[f] # << AsStr(Get(call.engineered[1])[f]) >> }

C27_Witness ==
    /\ call.op = "predict" /\ call.results # <<>>
    /\ Succeeded(call.results[1])
    /\ ~IsNone(call.engineered[1])
    /\ EncodersOfEarlierCalls # {}

(***************************************************************************)
(* C28.  The two validators agree on accepted input: every record of a     *)
(* request that validate_prediction_input accepts is accepted by the       *)
(* predictor's _validate_input as well, so no admitted record ends in the  *)
(* predictor's invalid-input error.                                        *)
(***************************************************************************)
AdmittedByHttp(data) == validate_prediction_input(data) = <<>>

C28_ValidatorsAgree ==
    (call.op \in HttpOps /\ predictor_set) =>
        /\ \A i \in DOMAIN call.args :
             AdmittedByHttp(call.args[i]) => _validate_input(call.args[i]).ok
        /\ \A i \in DOMAIN call.raised : call.raised[i] # "validation"

(* What holds: the validators agree on the records whose coordinates and   *)
(* counts are JSON numbers and whose counts are whole.                     *)
WholeNumberFields(data) ==
    /\ \A f \in {"latitude", "longitude"} : data[f].t = "num"
    /\ \A f \in {"minimum_nights", "availability_365", "number_of_reviews",
                 "calculated_host_listings_count"} :
         data[f].t = "num" /\ data[f].v % HalfDen = 0

C28_ValidatorsAgreeOnWholeNumbers ==
    (call.op \in HttpOps /\ predictor_set) =>
        \A i \in DOMAIN call.args :
            (AdmittedByHttp(call.args[i]) /\ WholeNumberFields(call.args[i]))
                => _validate_input(call.args[i]).ok

(* A request with minimum_nights = -0.5 was admitted by the HTTP layer and *)
(* answered with 500 after the predictor's validation rejected it.         *)
C28_AdmittedThenRejected ==
    /\ call.op = "POST /predict" /\ call.status = 500
    /\ call.args[1]["minimum_nights"] = Num(-1)
    /\ AdmittedByHttp(call.args[1])
    /\ call.raised = << "validation" >>

(***************************************************************************)
(* C29.  The flags and the categories of one engineered frame agree:       *)
(* is_highly_available is 1 exactly when availability_category is Always,  *)
(* is_short_stay is 1 exactly when min_nights_category is Flexible or      *)
(* Short, is_super_host = 1 implies that host_activity_level is Active or  *)
(* Professional, and booking_intensity Low implies availability_category   *)
(* Always.                                                                 *)
(***************************************************************************)
FlagsAgree(df) ==
    /\ df["is_highly_available"] = Bool(TRUE)
          <=> df["availability_category"] = Txt("Always")
    /\ df["is_short_stay"] = Bool(TRUE)
          <=> df["min_nights_category"] \in {Txt("Flexible"), Txt("Short")}
    /\ df["is_super_host"] = Bool(TRUE)
          => df["host_activity_level"] \in {Txt("Active"), Txt("Professional")}
    /\ df["booking_intensity"] = Txt("Low")
          => df["availability_category"] = Txt("Always")

C29_FlagsAgreeWithCategories ==
    call.op \in PredictionOps =>
      \A i \in DOMAIN call.engineered :
        ~IsNone(call.engineered[i]) => FlagsAgree(Get(call.engineered[i]))

(* A listing with minimum_nights = 3, the last value of a short stay, was  *)
(* engineered.                                                             *)
C29_Witness ==
    /\ call.op = "predict" /\ call.results # <<>>
    /\ ~IsNone(call.engineered[1])
    /\ Get(call.engineered[1])["minimum_nights"] = Num(3 * HalfDen)
    /\ Get(call.engineered[1])["is_short_stay"] = Bool(TRUE)
    /\ Get(call.engineered[1])["min_nights_category"] = Txt("Short")

(* The other cases: low booking intensity on an always available listing,  *)
(* and a super host with 5.5 or 6 listings who is Active.                  *)
C29_LowIntensityReached ==
    /\ call.op = "predict" /\ call.results # <<>>
    /\ ~IsNone(call.engineered[1])
    /\ Get(call.engineered[1])["booking_intensity"] = Txt("Low")
    /\ Get(call.engineered[1])["availability_365"] = Num(315 * HalfDen)

C29_ActiveSuperHostReached ==
    /\ call.op = "predict" /\ call.results # <<>>
    /\ ~IsNone(call.engineered[1])
    /\ Get(call.engineered[1])["is_super_host"] = Bool(TRUE)
    /\ Get(call.engineered[1])["calculated_host_listings_count"] = Num(5 * HalfDen + 1)
    /\ Get(call.engineered[1])["host_activity_level"] = Txt("Active")

(***************************************************************************)
(* C30.  POST /predict/batch validates all items before it predicts any:   *)
(* when at least one item of the list fails validation the response is     *)
(* 400 and lists exactly the indices of the invalid items with their       *)
(* errors, and the predictor is invoked for no item; the predictor is      *)
(* invoked only when every item is valid.                                  *)
(***************************************************************************)
FailsValidation(item) == IsObject(item) /\ validate_prediction_input(item) # <<>>

InvalidItems(items) == { i \in DOMAIN items : FailsValidation(items[i]) }

ListsExactlyTheInvalid(items, validation_errors) ==
    /\ Len(validation_errors) = Cardinality(InvalidItems(items))
    /\ \A k \in DOMAIN validation_errors :
         /\ validation_errors[k].index + 1 \in InvalidItems(items)
         /\ validation_errors[k].errors =
               validate_prediction_input(items[validation_errors[k].index + 1])
         /\ \A j \in DOMAIN validation_errors :
               j < k => validation_errors[j].index < validation_errors[k].index

PredictorInvoked == call.results # <<>> \/ call.stages # <<>>

BatchAccepted ==
    /\ call.op = "POST /predict/batch" /\ predictor_set
    /\ Len(call.args) \in 1..BatchLimit

C30_ValidateAllBeforePredicting ==
    BatchAccepted =>
        /\ InvalidItems(call.args) # {} =>
              /\ call.status = 400
              /\ ListsExactlyTheInvalid(call.args, call.validation_errors)
              /\ ~PredictorInvoked
        /\ PredictorInvoked => \A i \in DOMAIN call.args :
                                   /\ IsObject(call.args[i])
                                   /\ ~FailsValidation(call.args[i])

(* What holds: the same for the lists whose items are all JSON objects,    *)
(* and for every list the predictor is invoked only when all items are     *)
(* valid objects.                                                          *)
C30_ValidateAllObjectsBeforePredicting ==
    BatchAccepted =>
        /\ (InvalidItems(call.args) # {} /\ \A i \in DOMAIN call.args : IsObject(call.args[i])) =>
              /\ call.status = 400
              /\ ListsExactlyTheInvalid(call.args, call.validation_errors)
              /\ ~PredictorInvoked
        /\ PredictorInvoked => \A i \in DOMAIN call.args :
                                   /\ IsObject(call.args[i])
                                   /\ ~FailsValidation(call.args[i])

(* A list of an invalid record and a number was answered with 500 and no   *)
(* list of errors.                                                         *)
C30_InvalidItemAnswered500 ==
    /\ BatchAccepted
    /\ InvalidItems(call.args) # {}
    /\ call.status = 500 /\ call.validation_errors = <<>>

(* A list with a valid and an invalid record was answered with 400 and the *)
(* index of the invalid one.                                               *)
C30_OneOfTwoInvalid ==
    /\ BatchAccepted /\ Len(call.args) = 2
    /\ InvalidItems(call.args) = {2}
    /\ call.status = 400
    /\ Len(call.validation_errors) = 1 /\ call.validation_errors[1].index = 1

====
